---- MODULE Spec2Model ----
(***************************************************************************)
(* Session/process supervisor of claude-code-discord.                      *)
(*                                                                         *)
(* Part 1: the structured (stream-json) ClaudeSession, its stdout decoder  *)
(*         and its registry (claude-manager.js, JSON streaming version).   *)
(*                                                                         *)
(* Text is a sequence of characters, a chunk read from the child's stdout  *)
(* is a sequence of bytes.  A character is a one-element token; the only   *)
(* non-ASCII character of the model is U+00E9, whose UTF-8 encoding is the *)
(* two bytes xC3 xA9.  U+FFFD is the replacement character that            *)
(* Buffer.toString() produces for an incomplete or stray UTF-8 sequence.   *)
(*                                                                         *)
(* Wire format of one stdout line (the stand-in for one JSON object):      *)
(*     <tag> <sid> <text...> ";"                                           *)
(*   tag   "s" system/init   "a" assistant (one text block)                *)
(*         "d" content_block_delta (text_delta)   "r" result   "o" other   *)
(*   sid   "-" no session_id, "A" or "B" the session_id                    *)
(*   text  the text / delta / result string, possibly empty                *)
(* Anything else is not parsable (JSON.parse throws).                      *)
(***************************************************************************)
EXTENDS Integers, Sequences, FiniteSets, TLC

NULL  == "null"   \* null / undefined where the value is a string
NoRef == 0        \* null where the value refers to a child, a timer or a Turn

\* ---------------------------------------------------------------- bounds
MaxSessions == 2
MaxChildren == 2
MaxData     == 1
MaxRejected == 2
MaxRecs     == 2

\* ------------------------------------------------------- wire vocabulary
NL          == "\n"
Whitespace  == {" "}
Tags        == {"s", "a", "d", "r", "o"}
SidChars    == {"-", "A", "B"}
TextChars   == {"x", " ", "U+00E9", "U+FFFD"}
SessionIds  == {"A", "B"}

TypeOfTag(t) ==
    CASE t = "s" -> "system"
      [] t = "a" -> "assistant"
      [] t = "d" -> "content_block_delta"
      [] t = "r" -> "result"
      [] OTHER   -> "other"

\* ------------------------------------------------ data.toString() (utf8)
RECURSIVE toString(_)
toString(bytes) ==
    IF bytes = <<>> THEN <<>>
    ELSE IF Head(bytes) = "xC3"
         THEN IF Len(bytes) >= 2 /\ bytes[2] = "xA9"
              THEN <<"U+00E9">> \o toString(SubSeq(bytes, 3, Len(bytes)))
              ELSE <<"U+FFFD">> \o toString(Tail(bytes))
    ELSE IF Head(bytes) = "xA9"
         THEN <<"U+FFFD">> \o toString(Tail(bytes))
    ELSE <<Head(bytes)>> \o toString(Tail(bytes))

\* ------------------------------------------------------ buffer.split('\n')
RECURSIVE split(_)
split(str) ==
    IF \A i \in 1..Len(str) : str[i] # NL
    THEN <<str>>
    ELSE LET k == CHOOSE i \in 1..Len(str) :
                      str[i] = NL /\ \A j \in 1..(i-1) : str[j] # NL
         IN  <<SubSeq(str, 1, k-1)>> \o split(SubSeq(str, k+1, Len(str)))

\* ----------------------------------------------------------- line.trim()
RECURSIVE trimStart(_)
trimStart(str) ==
    IF str # <<>> /\ Head(str) \in Whitespace THEN trimStart(Tail(str)) ELSE str

RECURSIVE trimEnd(_)
trimEnd(str) ==
    IF str # <<>> /\ str[Len(str)] \in Whitespace
    THEN trimEnd(SubSeq(str, 1, Len(str)-1)) ELSE str

trim(str) == trimEnd(trimStart(str))

\* ------------------------------------------------------ JSON.parse(line)
ParseError == [type |-> "SyntaxError"]

JSONparse(line) ==
    IF /\ Len(line) >= 3
       /\ line[1] \in Tags
       /\ line[2] \in SidChars
       /\ line[Len(line)] = ";"
       /\ \A i \in 3..(Len(line)-1) : line[i] \in TextChars
    THEN [type       |-> TypeOfTag(line[1]),
          session_id |-> IF line[2] = "-" THEN NULL ELSE line[2],
          text       |-> SubSeq(line, 3, Len(line)-1)]
    ELSE ParseError

\* --------------------------------------------------------- handleJsonLine
\* st = [sessionId, currentOutput, emitted]; emitted is the sequence of
\* events handed to this.emit(), each <<name, value>>.
Emit(st, name, value) == [st EXCEPT !.emitted = Append(@, <<name, value>>)]

\* A plausible slip: the init record overwrites a known identity.
caseSystemInit_overwrites(st, data) ==
    LET s1 == IF data.session_id # NULL
              THEN Emit([st EXCEPT !.sessionId = data.session_id],
                        "session", data.session_id)
              ELSE st
    IN  Emit(s1, "init", data.session_id)

\* case 'system': if (data.subtype === 'init') { ... }
caseSystemInit(st, data) ==
    LET s1 == IF data.session_id # NULL /\ st.sessionId = NULL
              THEN Emit([st EXCEPT !.sessionId = data.session_id],
                        "session", data.session_id)
              ELSE st
    IN  Emit(s1, "init", data.session_id)

\* A plausible slip: the final result is appended to the accumulated text.
caseResult_appends(st, data) ==
    LET s1 == IF data.text # <<>>
              THEN [st EXCEPT !.currentOutput = @ \o data.text] ELSE st
        s2 == IF data.session_id # NULL
              THEN [s1 EXCEPT !.sessionId = data.session_id] ELSE s1
    IN  Emit(s2, "result", data.text)

\* case 'result':
caseResult(st, data) ==
    LET s1 == IF data.text # <<>>
              THEN [st EXCEPT !.currentOutput = data.text] ELSE st
        s2 == IF data.session_id # NULL
              THEN [s1 EXCEPT !.sessionId = data.session_id] ELSE s1
    IN  Emit(s2, "result", data.text)

handleJsonLine(st, line) ==
    LET data == JSONparse(line) IN
    IF data = ParseError THEN Emit(st, "parse_error", line)
    ELSE CASE data.type = "system" -> caseSystemInit(st, data)
           [] data.type = "assistant" ->
                 LET s1 == Emit([st EXCEPT !.currentOutput = @ \o data.text],
                                "text", data.text)
                 IN  IF data.session_id # NULL /\ s1.sessionId = NULL
                     THEN Emit([s1 EXCEPT !.sessionId = data.session_id],
                               "session", data.session_id)
                     ELSE s1
           [] data.type = "content_block_delta" ->
                 IF data.text # <<>>
                 THEN Emit([st EXCEPT !.currentOutput = @ \o data.text],
                           "text", data.text)
                 ELSE st
           [] data.type = "result" -> caseResult(st, data)
           [] OTHER -> Emit(st, "event", data.type)

\* A plausible slip: one try/catch around the whole loop, so that a line
\* that does not parse ends the handling of the chunk.
RECURSIVE handleLines_stopsAtError(_, _)
handleLines_stopsAtError(st, lines) ==
    IF lines = <<>> THEN st
    ELSE IF trim(Head(lines)) # <<>> /\ JSONparse(trim(Head(lines))) = ParseError
         THEN handleJsonLine(st, trim(Head(lines)))
         ELSE handleLines_stopsAtError(IF trim(Head(lines)) # <<>>
                                       THEN handleJsonLine(st, trim(Head(lines)))
                                       ELSE st,
                                       Tail(lines))

RECURSIVE handleLines(_, _)
handleLines(st, lines) ==
    IF lines = <<>> THEN st
    ELSE handleLines(IF trim(Head(lines)) # <<>>
                     THEN handleJsonLine(st, trim(Head(lines)))
                     ELSE st,
                     Tail(lines))

\* --------------------------------------- this.process.stdout.on('data')
\* d = [buffer, st]: the closure variable `buffer` of one send() and the
\* Session fields the handler touches.
stdoutOnData(d, data) ==
    LET joined == d.buffer \o toString(data)
        lines  == split(joined)
    IN  [buffer |-> lines[Len(lines)],
         st     |-> handleLines(d.st, SubSeq(lines, 1, Len(lines)-1))]


\* ------------------------------------------------ the child's wire output
\* One stdout line for a record, UTF-8 encoded and newline-terminated.
RECURSIVE utf8(_)
utf8(str) ==
    IF str = <<>> THEN <<>>
    ELSE (IF Head(str) = "U+00E9" THEN <<"xC3", "xA9">> ELSE <<Head(str)>>)
         \o utf8(Tail(str))

Line(tag, sid, text) == utf8(<<tag, sid>> \o text \o <<";">>) \o <<NL>>

\* Chunks a child may write in the session model: an assistant record with
\* text and identity A, and a result record with final text and identity B.
Chunks ==
    { Line("a", "A", <<"x">>),
      Line("r", "B", <<"x", "x">>) }

\* =====================================================================
\* State
\* =====================================================================
VARIABLES
    sessions,        \* const sessions = new Map(): key -> ClaudeSession
    nSessions,       \* number of ClaudeSession objects constructed so far
    sessionId,       \* this.sessionId       (per ClaudeSession object)
    workingDir,      \* this.workingDir
    isProcessing,    \* this.isProcessing
    process,         \* this.process: the child it refers to, or NULL
    pendingResolve,  \* this.pendingResolve: the Turn whose resolve it is
    pendingReject,   \* this.pendingReject: the Turn whose reject it is
    currentOutput,   \* this.currentOutput
    timeoutId,       \* this.timeoutId: the timer it refers to, or NULL
    nChildren,       \* number of children spawned so far (= accepted sends)
    child,           \* per spawned child: owner, OS state, closure buffer
    timer,           \* per send(): state of the timer armed by setTimeout
    turn,            \* per send(): the promise returned to the caller
    nRejected,       \* per Session: send() calls that threw 'Already processing'
    dRecs, dSeed, dCut, dOne, dTwo   \* decoder harness (see SpecDecode)

sessVars  == <<sessions, nSessions, sessionId, workingDir, isProcessing,
               process, pendingResolve, pendingReject, currentOutput,
               timeoutId>>
childVars == <<nChildren, child, timer, turn>>
histVars  == <<nRejected>>
decVars   == <<dRecs, dSeed, dCut, dOne, dTwo>>

\* handleMessage of the stream-json bot, from the reply message on:
VARIABLES
    clock,           \* Date.now(), ms since the reply message was sent
    hPc,             \* where handleMessage stands
    displayMode,     \* getDisplayMode(message.author.id)
    streamBlocks,    \* const streamBlocks = []
    lastUpdateTime,  \* let lastUpdateTime
    statusInterval,  \* the 800 ms interval: [active, due]
    edits,           \* the calls of replyMessage.edit, in order
    applied          \* how many of them Discord has completed

botVars   == <<clock, hPc, displayMode, streamBlocks, lastUpdateTime,
               statusInterval, edits, applied>>

\* The PTY-mode manager (src/claude-manager.js): registry and Session objects
VARIABLES
    activeSessions,     \* const activeSessions = new Map(): key -> object
    nPty,               \* number of PTY Sessions constructed so far
    ptyProc,            \* the spawned terminal: none, running, killed, exited
    ptyRef,             \* this.pty is not null
    isRunning,          \* this.isRunning
    isReady,            \* this.isReady
    lastActivity,       \* this.lastActivity
    outputBuffer,       \* this.outputBuffer
    ptyPendingResolve,  \* this.pendingResolve: the send it belongs to
    ptySessionId,       \* this.sessionId
    ptyWorkingDir,      \* this.workingDir
    ptyKey,             \* the key the object was constructed for
    listeners,          \* the listeners of 'ready', in registration order
    nSends,             \* number of send() calls so far
    psend,              \* per send(): its promise and its two timers
    written,            \* the sends whose message was written to the terminal
    readyCount,         \* number of 'ready' events emitted so far
    ptyClock,           \* Date.now()
    swept               \* the objects cleanupStaleSessions has closed

ptyObjVars  == <<nPty, ptyProc, ptyRef, isRunning, isReady, lastActivity,
                 outputBuffer, ptyPendingResolve, ptySessionId, ptyWorkingDir,
                 ptyKey, listeners>>
ptySendVars == <<nSends, psend, written, readyCount>>
ptyVars     == <<activeSessions, ptyObjVars, ptySendVars, ptyClock, swept>>

\* handleClaude of the PTY bot: its calls on one Session
VARIABLES
    hcClock,   \* Date.now()
    nCalls,    \* number of handleClaude calls so far
    hc,        \* per call: where it stands and its closure variables
    hcEdits    \* per call: its interaction.editReply calls, in order

hcVars    == <<hcClock, nCalls, hc, hcEdits>>

\* the entry point: the lock file and the bot processes
VARIABLES
    lockFile,  \* the pid recorded in .bot.lock, NoLock when there is no file
    inst       \* per process: where it stands, the pid it read, SIGTERM sent

lockVars == <<lockFile, inst>>

\* the argument and the result of a function applied on its own
VARIABLES fnIn, fnOut, fnDone

fnVars == <<fnIn, fnOut, fnDone>>

\* handleMessage of the stream-json bot: its calls on one Session
VARIABLES
    nHm,          \* number of handleMessage calls so far
    hm,           \* per call: where it stands, its interval, its listeners
    hmProcessing  \* session.isProcessing

hmVars == <<nHm, hm, hmProcessing>>

\* the stream-json bot's configuration, registry and session store
VARIABLES
    allowedUsers,     \* ALLOWED_USERS
    allowedChannels,  \* ALLOWED_CHANNELS
    cmSessions,       \* the pairs that have a Session in the registry
    cmProcessing,     \* the pairs whose Session has isProcessing set
    rows,             \* the sessions table, in order of insertion
    cmLast            \* what the last handler did, and for which pair

cmVars == <<allowedUsers, allowedChannels, cmSessions, cmProcessing, rows,
            cmLast>>

laterVars == <<hcVars, lockVars, fnVars, hmVars, cmVars>>
coreVars  == <<sessVars, childVars, histVars, decVars, botVars, ptyVars>>

otherVars == <<botVars, ptyVars, laterVars>>
vars      == <<sessVars, childVars, histVars, decVars, otherVars>>

Objects  == 1..MaxSessions
Children == 1..MaxChildren

ChannelIds == {"c"}
UserIds    == {"u"}
Dirs       == {"d"}
Cwd        == "cwd"

\* const key = `${channelId}_${userId}`
Key(channelId, userId) == channelId \o "_" \o userId
Keys == { Key(c, u) : c \in ChannelIds, u \in UserIds }

NoChild == [owner |-> NoRef, state |-> "none", buffer |-> <<>>, nData |-> 0,
            errored |-> FALSE, args |-> <<>>, cwd |-> NULL]
NoTurn  == [status |-> "none", output |-> <<>>, sessionId |-> NULL,
            error |-> NULL, by |-> NULL, of |-> NoRef, code |-> NULL]

\* A decoder of the harness: the closure buffer of one send(), the Session
\* fields the stdout handler touches, and the number of chunks fed so far.
Decoder(seed) == [buffer |-> <<>>,
                  st     |-> [sessionId |-> seed, currentOutput |-> <<>>,
                              emitted |-> <<>>],
                  fed    |-> 0]

DecIdle == /\ dRecs = <<>> /\ dSeed = NULL /\ dCut = 0
           /\ dOne = Decoder(NULL) /\ dTwo = Decoder(NULL)

\* State after module load: no Session constructed, empty registry.
\* no Session object constructed, no child spawned
ObjInit ==
    /\ nSessions      = 0
    /\ sessionId      = [s \in Objects |-> NULL]
    /\ workingDir     = [s \in Objects |-> Cwd]
    /\ isProcessing   = [s \in Objects |-> FALSE]
    /\ process        = [s \in Objects |-> NoRef]
    /\ pendingResolve = [s \in Objects |-> NoRef]
    /\ pendingReject  = [s \in Objects |-> NoRef]
    /\ currentOutput  = [s \in Objects |-> <<>>]
    /\ timeoutId      = [s \in Objects |-> NoRef]
    /\ nChildren      = 0
    /\ child          = [c \in Children |-> NoChild]
    /\ timer          = [c \in Children |-> "none"]
    /\ turn           = [c \in Children |-> NoTurn]
    /\ nRejected      = [s \in Objects |-> 0]

SessInit ==
    /\ sessions = [k \in Keys |-> NoRef]
    /\ ObjInit

\* no message is being handled
BotIdle ==
    /\ clock = 0 /\ hPc = "idle" /\ displayMode = "raw"
    /\ streamBlocks = <<>> /\ lastUpdateTime = 0
    /\ statusInterval = [active |-> FALSE, due |-> 0]
    /\ edits = <<>> /\ applied = 0

\* The PTY-mode manager before any Session is constructed.
MaxPty     == 3
MaxSends   == 2
MaxOutput  == 2
MaxReady   == 3
MaxTicks   == 4

PtyObjects    == 1..MaxPty
Sends         == 1..MaxSends
PtyChannelIds == {"a", "b", "c"}
PtyUserIds    == {"u"}
PtyKeys       == { Key(c, u) : c \in PtyChannelIds, u \in PtyUserIds }

NoSend == [on |-> NoRef, status |-> "none", output |-> <<>>, error |-> NULL,
           readyTimer |-> "none", timeout |-> "none", by |-> 0, at |-> 0]

PtyIdle ==
    /\ activeSessions    = [k \in PtyKeys |-> NoRef]
    /\ nPty              = 0
    /\ ptyProc           = [o \in PtyObjects |-> "none"]
    /\ ptyRef            = [o \in PtyObjects |-> FALSE]
    /\ isRunning         = [o \in PtyObjects |-> FALSE]
    /\ isReady           = [o \in PtyObjects |-> FALSE]
    /\ lastActivity      = [o \in PtyObjects |-> 0]
    /\ outputBuffer      = [o \in PtyObjects |-> <<>>]
    /\ ptyPendingResolve = [o \in PtyObjects |-> NoRef]
    /\ ptySessionId      = [o \in PtyObjects |-> NULL]
    /\ ptyWorkingDir     = [o \in PtyObjects |-> Cwd]
    /\ ptyKey            = [o \in PtyObjects |-> NULL]
    /\ listeners         = [o \in PtyObjects |-> <<>>]
    /\ nSends            = 0
    /\ psend             = [i \in Sends |-> NoSend]
    /\ written           = <<>>
    /\ readyCount        = 0
    /\ ptyClock          = 0
    /\ swept             = {}

\* handleClaude has not been called yet.
MaxCalls  == 2
MaxChunks == 2
MaxHcTime == 2000

Calls  == 1..MaxCalls
NoCall == [pc |-> "none", outputBuffer |-> 0, lastEdit |-> 0,
           attached |-> FALSE, foreign |-> FALSE]

HcIdle ==
    /\ hcClock = 0 /\ nCalls = 0
    /\ hc = [t \in Calls |-> NoCall]
    /\ hcEdits = [t \in Calls |-> <<>>]

\* no bot process has been launched and there is no lock file
MaxInst == 3
Pids    == 1..MaxInst
NoLock  == 0

LockIdle ==
    /\ lockFile = NoLock
    /\ inst = [p \in Pids |-> [pc |-> "off", oldPid |-> NoLock, sig |-> FALSE]]

\* no function is being applied on its own
FnIdle == fnIn = <<>> /\ fnOut = <<>> /\ fnDone = FALSE

\* handleMessage has not been called yet
MaxHm   == 3
HmCalls == 1..MaxHm

HmIdle ==
    /\ nHm = 0
    /\ hm = [t \in HmCalls |->
                [pc |-> "none", interval |-> FALSE, listening |-> {},
                 error |-> NULL]]
    /\ hmProcessing = FALSE

\* no allow-list is configured, no command was given, the store is empty
MaxRows    == 3
CmChannels == {"c", "d"}
CmUsers    == {"u", "v"}

CmIdle ==
    /\ allowedUsers = {} /\ allowedChannels = {}
    /\ cmSessions = {} /\ cmProcessing = {}
    /\ rows = <<>>
    /\ cmLast = <<"none", <<"c", "u">>>>

LaterIdle == HcIdle /\ LockIdle /\ FnIdle /\ HmIdle /\ CmIdle

OtherIdle == BotIdle /\ PtyIdle /\ LaterIdle

Init == SessInit /\ DecIdle /\ OtherIdle

\* ------------------------------------------------------------- helpers
\* resolve(value) / reject(err) of the promise of Turn t; a promise settles
\* at most once, later calls are ignored.
\* by/of name the event that settled it: "close", "error" or "timeout" of
\* child (or timer) `of`; code is the exit code a "close" carried.
settle(t, status, output, sid, error, by, of, code) ==
    IF t # NoRef /\ turn[t].status = "pending"
    THEN [turn EXCEPT ![t] = [status |-> status, output |-> output,
                              sessionId |-> sid, error |-> error,
                              by |-> by, of |-> of, code |-> code]]
    ELSE turn

\* clearTimeout(id)
clearTimeout(id) ==
    IF id # NoRef /\ timer[id] = "armed"
    THEN [timer EXCEPT ![id] = "cleared"] ELSE timer

\* child.kill('SIGTERM'): the signal is delivered, the exit comes later.
processKill(p) ==
    IF p # NoRef /\ child[p].state = "running"
    THEN [child EXCEPT ![p].state = "killed"] ELSE child


\* =====================================================================
\* ClaudeSession
\* =====================================================================

\* A plausible slip: the output buffer is reset before the busy check.
sendThrow_resetsOutput(s) ==
    /\ nRejected[s] < MaxRejected
    /\ nRejected' = [nRejected EXCEPT ![s] = @ + 1]
    /\ currentOutput' = [currentOutput EXCEPT ![s] = <<>>]
    /\ UNCHANGED <<sessions, nSessions, sessionId, workingDir, isProcessing,
                   process, pendingResolve, pendingReject, timeoutId,
                   childVars>>

\* send(), isProcessing set: throw new Error('Already processing ...')
sendThrow(s) ==
    /\ nRejected[s] < MaxRejected
    /\ nRejected' = [nRejected EXCEPT ![s] = @ + 1]
    /\ UNCHANGED <<sessVars, childVars>>

\* send(), the promise executor: spawn the child, arm the timer, write stdin
\* process.env.CLAUDE_MODEL || null: the variable is not set
CLAUDE_MODEL == NULL

\* a send that never resumes
spawnArgs_withoutResume(s) ==
    <<"-p", "--input-format", "stream-json", "--output-format", "stream-json">>
        \o (IF CLAUDE_MODEL # NULL THEN <<"--model", CLAUDE_MODEL>> ELSE <<>>)

\* const args = [...]; args.push('--model', ...); args.push('--resume', ...)
spawnArgs(s) ==
    <<"-p", "--input-format", "stream-json", "--output-format", "stream-json">>
        \o (IF CLAUDE_MODEL # NULL THEN <<"--model", CLAUDE_MODEL>> ELSE <<>>)
        \o (IF sessionId[s] # NULL THEN <<"--resume", sessionId[s]>> ELSE <<>>)

sendSpawn(s) ==
    /\ nChildren < MaxChildren
    /\ LET c == nChildren + 1 IN
       /\ nChildren'      = c
       /\ isProcessing'   = [isProcessing EXCEPT ![s] = TRUE]
       /\ pendingResolve' = [pendingResolve EXCEPT ![s] = c]
       /\ pendingReject'  = [pendingReject EXCEPT ![s] = c]
       /\ currentOutput'  = [currentOutput EXCEPT ![s] = <<>>]
       /\ process'        = [process EXCEPT ![s] = c]
       /\ child'          = [child EXCEPT ![c] =
                               [NoChild EXCEPT !.owner = s,
                                               !.state = "running",
                                               !.args = spawnArgs(s),
                                               !.cwd = workingDir[s]]]
       /\ timer'          = [timer EXCEPT ![c] = "armed"]
       /\ timeoutId'      = [timeoutId EXCEPT ![s] = c]
       /\ turn'           = [turn EXCEPT ![c].status = "pending"]
    /\ UNCHANGED <<sessions, nSessions, sessionId, workingDir, nRejected>>

\* A plausible slip: send() without the isProcessing guard.
send_unguarded(s) ==
    /\ s \in 1..nSessions
    /\ sendSpawn(s)
    /\ UNCHANGED <<decVars, otherVars>>

\* async send(message)
send(s) ==
    /\ s \in 1..nSessions
    /\ IF isProcessing[s] THEN sendThrow(s) ELSE sendSpawn(s)
    /\ UNCHANGED <<decVars, otherVars>>

\* this.process.stdout.on('data', ...) of the send() that spawned child c
stdoutData(c, data) ==
    /\ child[c].state \in {"running", "killed"}
    /\ child[c].nData < MaxData
    /\ LET s == child[c].owner
           d == stdoutOnData([buffer |-> child[c].buffer,
                              st |-> [sessionId     |-> sessionId[s],
                                      currentOutput |-> currentOutput[s],
                                      emitted       |-> <<>>]],
                             data)
       IN  /\ child' = [child EXCEPT ![c].buffer = d.buffer,
                                     ![c].nData  = @ + 1]
           /\ sessionId'     = [sessionId EXCEPT ![s] = d.st.sessionId]
           /\ currentOutput' = [currentOutput EXCEPT ![s] = d.st.currentOutput]
    /\ UNCHANGED <<sessions, nSessions, workingDir, isProcessing, process,
                   pendingResolve, pendingReject, timeoutId,
                   nChildren, timer, turn, nRejected, decVars, otherVars>>

\* this.process.on('close', (code) => ...) of the send() that spawned c
processOnClose(c, code) ==
    /\ child[c].state \in {"running", "killed"}
    /\ LET s == child[c].owner IN
       /\ child'        = [child EXCEPT ![c].state = "closed"]
       /\ isProcessing' = [isProcessing EXCEPT ![s] = FALSE]
       /\ process'      = [process EXCEPT ![s] = NoRef]
       /\ timer'        = clearTimeout(timeoutId[s])
       /\ IF pendingResolve[s] # NoRef
          THEN /\ turn' = settle(pendingResolve[s], "resolved",
                                 currentOutput[s], sessionId[s], NULL,
                                 "close", c, code)
               /\ pendingResolve' = [pendingResolve EXCEPT ![s] = NoRef]
               /\ pendingReject'  = [pendingReject EXCEPT ![s] = NoRef]
          ELSE UNCHANGED <<turn, pendingResolve, pendingReject>>
    /\ UNCHANGED <<sessions, nSessions, sessionId, workingDir, currentOutput,
                   timeoutId, nChildren, nRejected, decVars, otherVars>>

\* this.process.on('error', (err) => ...) of the send() that spawned c
processOnError(c) ==
    /\ child[c].state \in {"running", "killed"}
    /\ ~child[c].errored
    /\ LET s == child[c].owner IN
       /\ child'        = [child EXCEPT ![c].errored = TRUE]
       /\ isProcessing' = [isProcessing EXCEPT ![s] = FALSE]
       /\ process'      = [process EXCEPT ![s] = NoRef]
       /\ timer'        = clearTimeout(timeoutId[s])
       /\ IF pendingReject[s] # NoRef
          THEN /\ turn' = settle(pendingReject[s], "rejected", <<>>, NULL,
                                 "err", "error", c, NULL)
               /\ pendingResolve' = [pendingResolve EXCEPT ![s] = NoRef]
               /\ pendingReject'  = [pendingReject EXCEPT ![s] = NoRef]
          ELSE UNCHANGED <<turn, pendingResolve, pendingReject>>
    /\ UNCHANGED <<sessions, nSessions, sessionId, workingDir, currentOutput,
                   timeoutId, nChildren, nRejected, decVars, otherVars>>

\* A plausible slip: the timeout kills the child and leaves the rejection to
\* the 'close' handler.
onTimeout_killOnly(c) ==
    /\ timer[c] = "armed"
    /\ LET s == child[c].owner IN
       /\ timer' = [timer EXCEPT ![c] = "fired"]
       /\ child' = processKill(process[s])
    /\ UNCHANGED <<sessions, nSessions, sessionId, workingDir, isProcessing,
                   process, currentOutput, timeoutId, nChildren, nRejected,
                   turn, pendingResolve, pendingReject, decVars, otherVars>>

\* the callback of this.timeoutId = setTimeout(() => ..., this.timeout)
\* armed by the send() that spawned c
onTimeout(c) ==
    /\ timer[c] = "armed"
    /\ LET s == child[c].owner IN
       /\ timer' = [timer EXCEPT ![c] = "fired"]
       /\ IF process[s] # NoRef
          THEN /\ child' = processKill(process[s])
               /\ IF pendingReject[s] # NoRef
                  THEN /\ turn' = settle(pendingReject[s], "rejected", <<>>,
                                         NULL, "Response timeout",
                                         "timeout", c, NULL)
                       /\ pendingResolve' = [pendingResolve EXCEPT ![s] = NoRef]
                       /\ pendingReject'  = [pendingReject EXCEPT ![s] = NoRef]
                  ELSE UNCHANGED <<turn, pendingResolve, pendingReject>>
          ELSE UNCHANGED <<child, turn, pendingResolve, pendingReject>>
    /\ UNCHANGED <<sessions, nSessions, sessionId, workingDir, isProcessing,
                   process, currentOutput, timeoutId, nChildren, nRejected,
                   decVars, otherVars>>

\* The assignments of kill() on Session s.
killBody(s) ==
    /\ child'        = processKill(process[s])
    /\ process'      = [process EXCEPT ![s] = NoRef]
    /\ isProcessing' = [isProcessing EXCEPT ![s] = FALSE]
    /\ timer'        = clearTimeout(timeoutId[s])

\* kill()
kill(s) ==
    /\ s \in 1..nSessions
    /\ killBody(s)
    /\ UNCHANGED <<sessions, nSessions, sessionId, workingDir, pendingResolve,
                   pendingReject, currentOutput, timeoutId, nChildren, turn,
                   nRejected, decVars, otherVars>>


\* =====================================================================
\* Registry
\* =====================================================================
\* The options the callers pass: none, or a resume identity and a directory.
Options == { [sessionId |-> NULL, workingDir |-> "d"],
             [sessionId |-> "A",  workingDir |-> "d"] }

\* export function getOrCreateSession(channelId, userId, options = {})
getOrCreateSession(channelId, userId, options) ==
    LET key == Key(channelId, userId) IN
    /\ IF sessions[key] = NoRef
       THEN \* new ClaudeSession({sessionId, workingDir}); sessions.set(...)
            /\ nSessions < MaxSessions
            /\ LET s == nSessions + 1 IN
               /\ nSessions'  = s
               /\ sessions'   = [sessions EXCEPT ![key] = s]
               /\ sessionId'  = [sessionId EXCEPT ![s] = options.sessionId]
               /\ workingDir' = [workingDir EXCEPT ![s] =
                                   IF options.workingDir # NULL
                                   THEN options.workingDir ELSE Cwd]
       ELSE LET s == sessions[key] IN
            /\ sessionId'  = IF options.sessionId # NULL
                             THEN [sessionId EXCEPT ![s] = options.sessionId]
                             ELSE sessionId
            /\ workingDir' = IF options.workingDir # NULL
                             THEN [workingDir EXCEPT ![s] = options.workingDir]
                             ELSE workingDir
            /\ UNCHANGED <<sessions, nSessions>>
    /\ UNCHANGED <<isProcessing, process, pendingResolve, pendingReject,
                   currentOutput, timeoutId, childVars, nRejected, decVars, otherVars>>

\* export function getSession(channelId, userId)
getSession(channelId, userId) == sessions[Key(channelId, userId)]

\* export function removeSession(channelId, userId)
removeSession(channelId, userId) ==
    LET key == Key(channelId, userId)
        s   == sessions[key]
    IN
    /\ IF s # NoRef
       THEN killBody(s)
       ELSE UNCHANGED <<child, process, isProcessing, timer>>
    /\ sessions' = [sessions EXCEPT ![key] = NoRef]
    /\ UNCHANGED <<nSessions, sessionId, workingDir, pendingResolve,
                   pendingReject, currentOutput, timeoutId, nChildren, turn,
                   nRejected, decVars, otherVars>>

\* =====================================================================
\* The session/registry specification
\* =====================================================================
ExitCodes == {"0", "1"}   \* exit code 0, or a nonzero exit code

Next ==
    \/ \E ch \in ChannelIds, u \in UserIds, o \in Options :
           getOrCreateSession(ch, u, o)
    \/ \E ch \in ChannelIds, u \in UserIds : removeSession(ch, u)
    \/ \E s \in Objects : send(s)
    \/ \E s \in Objects : kill(s)
    \/ \E c \in Children, data \in Chunks : stdoutData(c, data)
    \/ \E c \in Children, code \in ExitCodes : processOnClose(c, code)
    \/ \E c \in Children : processOnError(c)
    \/ \E c \in Children : onTimeout(c)

Spec == Init /\ [][Next]_vars


\* =====================================================================
\* The registry called with identifiers that contain the separator: the
\* registry operations, send() and the close of the children.
\* =====================================================================
WideChannelIds == {"a", "a_b"}
WideUserIds    == {"c", "b_c"}
WidePairs      == WideChannelIds \X WideUserIds
WideKeys       == { Key(p[1], p[2]) : p \in WidePairs }

InitKeys ==
    /\ sessions = [k \in WideKeys |-> NoRef]
    /\ ObjInit /\ DecIdle /\ OtherIdle

NextKeys ==
    \/ \E p \in WidePairs, o \in Options : getOrCreateSession(p[1], p[2], o)
    \/ \E p \in WidePairs : removeSession(p[1], p[2])
    \/ \E s \in Objects : send(s)
    \/ \E c \in Children, code \in ExitCodes : processOnClose(c, code)

SpecKeys == InitKeys /\ [][NextKeys]_vars


\* =====================================================================
\* Runs in which the callers only send: every operation and event of the
\* session/registry specification except kill() and removeSession().
\* =====================================================================
NextSend ==
    \/ \E ch \in ChannelIds, u \in UserIds, o \in Options :
           getOrCreateSession(ch, u, o)
    \/ \E s \in Objects : send(s)
    \/ \E c \in Children, data \in Chunks : stdoutData(c, data)
    \/ \E c \in Children, code \in ExitCodes : processOnClose(c, code)
    \/ \E c \in Children : processOnError(c)
    \/ \E c \in Children : onTimeout(c)

SpecSend == Init /\ [][NextSend]_vars

\* =====================================================================
\* The stdout decoder on its own: a stream of newline-terminated lines is
\* fed to one decoder as a single chunk and to another as two chunks cut
\* at byte offset dCut.
\* =====================================================================
WireLines ==
    { Line("s", "A", <<>>),            \* system/init, session_id A
      Line("s", "B", <<>>),            \* system/init, session_id B
      Line("a", "A", <<"U+00E9">>),    \* assistant, text "e-acute", session_id A
      Line("a", "B", <<"x">>),         \* assistant, text "x", session_id B
      Line("d", "-", <<"x">>),         \* text_delta "x"
      Line("r", "B", <<"x">>),         \* result "x", session_id B
      Line("r", "-", <<>>),            \* result without text or session_id
      <<"{", NL>>,                     \* not JSON
      <<"a", "A", "x", NL>>,           \* a truncated record: not JSON
      <<" ", NL>> }                    \* blank line

RECURSIVE Concat(_)
Concat(seqs) == IF seqs = <<>> THEN <<>> ELSE Head(seqs) \o Concat(Tail(seqs))

SeqsUpTo(S, n) == UNION { [1..k -> S] : k \in 0..n }

Stream == Concat(dRecs)

InitDecode ==
    /\ SessInit
    /\ dRecs \in SeqsUpTo(WireLines, MaxRecs)
    /\ dSeed \in SessionIds \cup {NULL}
    /\ dCut  \in 0..Len(Concat(dRecs))
    /\ dOne  = Decoder(dSeed)
    /\ dTwo  = Decoder(dSeed)
    /\ OtherIdle

feed(d, data) ==
    LET r == stdoutOnData([buffer |-> d.buffer, st |-> d.st], data)
    IN  [buffer |-> r.buffer, st |-> r.st, fed |-> d.fed + 1]

\* the whole stream arrives in one 'data' event
feedWhole ==
    /\ dOne.fed = 0
    /\ dOne' = feed(dOne, Stream)
    /\ UNCHANGED <<dRecs, dSeed, dCut, dTwo, sessVars, childVars, histVars, otherVars>>

\* the stream arrives in two 'data' events, cut at dCut
feedPart ==
    /\ dTwo.fed < 2
    /\ dTwo' = feed(dTwo, IF dTwo.fed = 0
                          THEN SubSeq(Stream, 1, dCut)
                          ELSE SubSeq(Stream, dCut + 1, Len(Stream)))
    /\ UNCHANGED <<dRecs, dSeed, dCut, dOne, sessVars, childVars, histVars, otherVars>>

NextDecode == feedWhole \/ feedPart

SpecDecode == InitDecode /\ [][NextDecode]_vars


\* ======================================================================
\* The stream-json bot: handleMessage, from the reply message to the end
\* of the Turn.  Time is Date.now() in ms; the clock moves in steps that
\* divide both periods.
ThrottleMs == 1000
TickMs     == 800
Step       == ThrottleMs - TickMs
MaxTime    == 2400
MaxBlocks  == 2

Modes      == {"raw", "clean"}
Processing == <<"*(Processing...)*">>

\* formatStructuredOutput(blocks, mode): clean mode keeps the text blocks
\* only; an empty rendering is replaced by the placeholder.
formatStructuredOutput(blocks, mode) ==
    LET kept == IF mode = "clean"
                THEN SelectSeq(blocks, LAMBDA b : b = "text")
                ELSE blocks
    IN  IF kept = <<>> THEN Processing ELSE kept

\* formatError(error)
formatError == <<"Error">>

\* what one call of replyMessage.edit carries
Edit(final, body, line) ==
    [at |-> clock, final |-> final, body |-> body, statusLine |-> line]

\* A plausible slip: the throttle compares with the animation period.
throttled_byTick(final, now, last) == ~final /\ now - last < TickMs

\* if (!final && now - lastUpdateTime < 1000) return;
throttled(final, now, last) == ~final /\ now - last < ThrottleMs

\* const updateMessage = async (final = false) => { ... }, up to the await
updateMessage(final, blocks) ==
    IF throttled(final, clock, lastUpdateTime)
    THEN UNCHANGED <<lastUpdateTime, edits>>
    ELSE /\ lastUpdateTime' = clock
         /\ edits' = Append(edits,
                            Edit(final,
                                 formatStructuredOutput(blocks, displayMode),
                                 ~final))

InitBot ==
    /\ SessInit /\ DecIdle /\ PtyIdle /\ LaterIdle
    /\ clock = 0
    /\ hPc = "awaitSend"
    /\ displayMode \in Modes
    /\ streamBlocks = <<>>
    /\ lastUpdateTime = 0
    /\ statusInterval = [active |-> TRUE, due |-> TickMs]
    /\ edits = <<>>
    /\ applied = 0

botFrame == <<sessVars, childVars, histVars, decVars, ptyVars, laterVars>>

\* time passes
advance ==
    /\ clock + Step <= MaxTime
    /\ clock' = clock + Step
    /\ UNCHANGED <<hPc, displayMode, streamBlocks, lastUpdateTime,
                   statusInterval, edits, applied, botFrame>>

\* setInterval(() => updateMessage(), 800)
onStatusInterval ==
    /\ statusInterval.active
    /\ clock >= statusInterval.due
    /\ statusInterval' = [statusInterval EXCEPT !.due = clock + TickMs]
    /\ updateMessage(FALSE, streamBlocks)
    /\ UNCHANGED <<clock, hPc, displayMode, streamBlocks, applied, botFrame>>

\* the listeners are attached from session.on(...) to the finally
Listening == hPc \in {"awaitSend", "awaitErrorEdit"}

\* onText, onThinking, onTool: push the block, then updateMessage()
onBlock(type) ==
    /\ Listening
    /\ Len(streamBlocks) < MaxBlocks
    /\ streamBlocks' = Append(streamBlocks, type)
    /\ updateMessage(FALSE, streamBlocks')
    /\ UNCHANGED <<clock, hPc, displayMode, statusInterval, applied,
                   botFrame>>

onText     == onBlock("text")
onThinking == onBlock("thinking")
onTool     == onBlock("tool")

\* onStatus: currentStatus = status; updateMessage()
onStatus ==
    /\ Listening
    /\ updateMessage(FALSE, streamBlocks)
    /\ UNCHANGED <<clock, hPc, displayMode, streamBlocks, statusInterval,
                   applied, botFrame>>

\* await session.send(contentArray) returns: the final update
sendResolved ==
    /\ hPc = "awaitSend"
    /\ hPc' = "awaitFinalEdit"
    /\ edits' = Append(edits,
                       Edit(TRUE,
                            formatStructuredOutput(streamBlocks, displayMode),
                            FALSE))
    /\ UNCHANGED <<clock, displayMode, streamBlocks, lastUpdateTime,
                   statusInterval, applied, botFrame>>

\* await session.send(contentArray) throws: catch (error)
sendRejected ==
    /\ hPc = "awaitSend"
    /\ hPc' = "awaitErrorEdit"
    /\ edits' = Append(edits, Edit(TRUE, formatError, FALSE))
    /\ UNCHANGED <<clock, displayMode, streamBlocks, lastUpdateTime,
                   statusInterval, applied, botFrame>>

\* Discord completes the oldest edit in flight; when it is the one that
\* handleMessage awaits, the finally clause runs.
editDone ==
    /\ applied < Len(edits)
    /\ applied' = applied + 1
    /\ IF edits[applied + 1].final
       THEN /\ hPc' = "done"
            /\ statusInterval' = [statusInterval EXCEPT !.active = FALSE]
       ELSE UNCHANGED <<hPc, statusInterval>>
    /\ UNCHANGED <<clock, displayMode, streamBlocks, lastUpdateTime, edits,
                   botFrame>>

NextBot ==
    \/ advance
    \/ onStatusInterval
    \/ onText
    \/ onThinking
    \/ onTool
    \/ onStatus
    \/ sendResolved
    \/ sendRejected
    \/ editDone

SpecBot == InitBot /\ [][NextBot]_vars

\* ======================================================================
\* The PTY-mode manager (src/claude-manager.js)
\* ======================================================================
\* const STALE_THRESHOLD = 30 * 60 * 1000; the clock moves in half thresholds
STALE_THRESHOLD == 30 * 60 * 1000
PtyStep         == STALE_THRESHOLD \div 2

ptyFrame == <<sessVars, childVars, histVars, decVars, botVars, laterVars>>

\* ---------------------------------------------------- terminal output
\* A chunk of terminal output is a sequence of tokens: "x" is text, "esc"
\* an ANSI escape sequence, "ind" a prompt indicator followed by text,
\* "nl" a line break, "sid" the text "Session: A"; ">", "?" and " " are
\* these characters.
PtyText   == <<"x">>
PtyPrompt == <<"esc", "nl", "ind">>
PtyIdent  == <<"sid", "nl">>
PtyEscape == <<"esc">>

\* String.prototype.trim: line feeds and blanks
PtySpace == {"nl", " "}

RECURSIVE ptyTrimStart(_)
ptyTrimStart(t) ==
    IF t # <<>> /\ Head(t) \in PtySpace THEN ptyTrimStart(Tail(t)) ELSE t

RECURSIVE ptyTrimEnd(_)
ptyTrimEnd(t) ==
    IF t # <<>> /\ t[Len(t)] \in PtySpace
    THEN ptyTrimEnd(SubSeq(t, 1, Len(t) - 1)) ELSE t

\* cleanOutput(text): strip the ANSI codes, then trim
cleanOutput(text) ==
    ptyTrimEnd(ptyTrimStart(SelectSeq(text, LAMBDA t : t # "esc")))

\* cleaned.split('\n').pop()
RECURSIVE lastLine(_)
lastLine(t) ==
    IF \E i \in 1..Len(t) : t[i] = "nl" THEN lastLine(Tail(t)) ELSE t

\* String.prototype.includes
includes(str, ind) ==
    \E i \in 0..(Len(str) - Len(ind)) :
        SubSeq(str, i + 1, i + Len(ind)) = ind

\* String.prototype.endsWith
endsWith(str, ind) ==
    /\ Len(ind) <= Len(str)
    /\ SubSeq(str, Len(str) - Len(ind) + 1, Len(str)) = ind

\* '> ', '? ' and the phrases ('Enter your message', ...), one token each
indicators == { <<">", " ">>, <<"?", " ">>, <<"ind">> }

\* isWaitingForInput(output)
isWaitingForInput(output) ==
    LET cleaned == cleanOutput(output)
        line    == ptyTrimEnd(ptyTrimStart(lastLine(cleaned)))
    IN  \E ind \in indicators : includes(line, ind) \/ endsWith(line, ind)

\* data.match(/Session:\s*([a-f0-9-]+)/i)
sessionMatch(data) ==
    IF \E i \in 1..Len(data) : data[i] = "sid" THEN "A" ELSE NULL

\* ------------------------------------------------- one Session object
\* The fields of Session o that send(), doSend() and the listeners touch.
Obj(o) ==
    [ptyRef |-> ptyRef[o], isRunning |-> isRunning[o],
     isReady |-> isReady[o], lastActivity |-> lastActivity[o],
     outputBuffer |-> outputBuffer[o],
     pendingResolve |-> ptyPendingResolve[o],
     listeners |-> listeners[o], psend |-> psend, written |-> written]

Store(o, m) ==
    /\ isReady'           = [isReady EXCEPT ![o] = m.isReady]
    /\ lastActivity'      = [lastActivity EXCEPT ![o] = m.lastActivity]
    /\ outputBuffer'      = [outputBuffer EXCEPT ![o] = m.outputBuffer]
    /\ ptyPendingResolve' = [ptyPendingResolve EXCEPT ![o] = m.pendingResolve]
    /\ listeners'         = [listeners EXCEPT ![o] = m.listeners]
    /\ psend'             = m.psend
    /\ written'           = m.written

Unsettled == {"new", "waitReady", "pending"}

\* a promise settles once: later calls of resolve and reject do nothing
reject(m, i, err) ==
    IF m.psend[i].status \in Unsettled
    THEN [m EXCEPT !.psend[i].status = "rejected", !.psend[i].error = err]
    ELSE m

resolve(m, i, out, ev) ==
    IF m.psend[i].status \in Unsettled
    THEN [m EXCEPT !.psend[i].status = "resolved", !.psend[i].output = out,
                   !.psend[i].by = ev]
    ELSE m

\* a doSend that writes without touching lastActivity
doSend_withoutStamp(m, i) ==
    LET m1 == [m EXCEPT !.outputBuffer = <<>>,
                        !.pendingResolve = i,
                        !.psend[i].timeout = "armed",
                        !.psend[i].at = ptyClock,
                        !.listeners = Append(@, [h |-> "completeHandler",
                                                 of |-> i])]
    IN  IF ~m1.ptyRef \/ ~m1.isRunning
        THEN reject(m1, i, "Session not running")
        ELSE [m1 EXCEPT !.isReady = FALSE,
                        !.written = Append(@, i),
                        !.psend[i].status = "pending"]

\* doSend(message, resolve, reject), write(message) included
doSend(m, i) ==
    LET m1 == [m EXCEPT !.outputBuffer = <<>>,
                        !.pendingResolve = i,
                        !.psend[i].timeout = "armed",
                        !.psend[i].at = ptyClock,
                        !.listeners = Append(@, [h |-> "completeHandler",
                                                 of |-> i])]
    IN  IF ~m1.ptyRef \/ ~m1.isRunning
        THEN reject(m1, i, "Session not running")
        ELSE [m1 EXCEPT !.lastActivity = ptyClock,
                        !.isReady = FALSE,
                        !.written = Append(@, i),
                        !.psend[i].status = "pending"]

\* const completeHandler = () => { ... }
completeHandler(m, i, ev) ==
    resolve([m EXCEPT !.psend[i].timeout = IF @ = "armed" THEN "cleared" ELSE @,
                      !.pendingResolve = NoRef],
            i, m.outputBuffer, ev)

RemoveListener(L, l) ==
    IF \E k \in 1..Len(L) : L[k] = l
    THEN LET k == CHOOSE k \in 1..Len(L) :
                      L[k] = l /\ \A j \in 1..(k - 1) : L[j] # l
         IN  SubSeq(L, 1, k - 1) \o SubSeq(L, k + 1, Len(L))
    ELSE L

\* this.emit('ready'): the listeners registered when the event is emitted
\* run in order; each was registered with once() and is removed as it runs.
RECURSIVE emitReady(_, _, _)
emitReady(m, L, ev) ==
    IF L = <<>> THEN m
    ELSE LET l  == Head(L)
             m0 == [m EXCEPT !.listeners = RemoveListener(@, l)]
             m1 == IF l.h = "readyHandler"
                   THEN doSend(m0, l.of)
                   ELSE completeHandler(m0, l.of, ev)
         IN  emitReady(m1, Tail(L), ev)

\* async send(message)
ptySend(o) ==
    /\ o \in 1..nPty
    /\ nSends < MaxSends
    /\ LET i  == nSends + 1
           m  == [Obj(o) EXCEPT !.psend[i] = [NoSend EXCEPT !.on = o,
                                                            !.status = "new"]]
       IN  /\ nSends' = i
           /\ IF ~m.isReady /\ m.isRunning
              THEN Store(o, [m EXCEPT !.listeners =
                                          Append(@, [h |-> "readyHandler",
                                                     of |-> i]),
                                      !.psend[i].status = "waitReady",
                                      !.psend[i].readyTimer = "armed"])
              ELSE Store(o, doSend(m, i))
    /\ UNCHANGED <<activeSessions, nPty, ptyProc, ptyRef, isRunning,
                   ptySessionId, ptyWorkingDir, ptyKey, readyCount,
                   ptyClock, swept, ptyFrame>>

\* setTimeout(() => { removeListener; reject(...) }, 30000) of send()
readyTimeout(i) ==
    /\ i \in 1..nSends
    /\ psend[i].readyTimer = "armed"
    /\ LET o == psend[i].on
           m == [Obj(o) EXCEPT !.psend[i].readyTimer = "fired",
                               !.listeners =
                                   RemoveListener(@, [h |-> "readyHandler",
                                                      of |-> i])]
       IN  Store(o, reject(m, i, "Timeout waiting for Claude to be ready"))
    /\ UNCHANGED <<activeSessions, nPty, ptyProc, ptyRef, isRunning,
                   ptySessionId, ptyWorkingDir, ptyKey, nSends, readyCount,
                   ptyClock, swept, ptyFrame>>

\* setTimeout(() => { pendingResolve = null; reject(...) }, 300000) of doSend()
responseTimeout(i) ==
    /\ i \in 1..nSends
    /\ psend[i].timeout = "armed"
    /\ LET o == psend[i].on
           m == [Obj(o) EXCEPT !.psend[i].timeout = "fired",
                               !.pendingResolve = NoRef]
       IN  Store(o, reject(m, i, "Response timeout"))
    /\ UNCHANGED <<activeSessions, nPty, ptyProc, ptyRef, isRunning,
                   ptySessionId, ptyWorkingDir, ptyKey, nSends, readyCount,
                   ptyClock, swept, ptyFrame>>

\* this.pty.onData((data) => { ... })
ptyOnData(o, data) ==
    /\ o \in 1..nPty
    /\ ptyProc[o] = "running"
    /\ Len(outputBuffer[o]) + Len(cleanOutput(data)) <= MaxOutput
    /\ isWaitingForInput(data) => readyCount < MaxReady
    /\ ptySessionId' = IF sessionMatch(data) # NULL /\ ptySessionId[o] = NULL
                       THEN [ptySessionId EXCEPT ![o] = sessionMatch(data)]
                       ELSE ptySessionId
    /\ LET m == [Obj(o) EXCEPT !.lastActivity = ptyClock,
                               !.outputBuffer = @ \o cleanOutput(data)]
       IN  IF isWaitingForInput(data)
           THEN /\ readyCount' = readyCount + 1
                /\ Store(o, emitReady([m EXCEPT !.isReady = TRUE],
                                      m.listeners, readyCount + 1))
           ELSE /\ Store(o, m)
                /\ UNCHANGED readyCount
    /\ UNCHANGED <<activeSessions, nPty, ptyProc, ptyRef, isRunning,
                   ptyWorkingDir, ptyKey, nSends, ptyClock, swept, ptyFrame>>

\* this.pty.onExit(({ exitCode }) => { ... })
ptyOnExit(o) ==
    /\ o \in 1..nPty
    /\ ptyProc[o] \in {"running", "killed"}
    /\ ptyProc'   = [ptyProc EXCEPT ![o] = "exited"]
    /\ isRunning' = [isRunning EXCEPT ![o] = FALSE]
    /\ isReady'   = [isReady EXCEPT ![o] = FALSE]
    /\ UNCHANGED <<activeSessions, nPty, ptyRef, lastActivity, outputBuffer,
                   ptyPendingResolve, ptySessionId, ptyWorkingDir, ptyKey,
                   listeners, ptySendVars, ptyClock, swept,
                   ptyFrame>>

\* The assignments of kill() on each Session of the set S.
ptyKillAll(S) ==
    /\ ptyProc'   = [o \in PtyObjects |->
                        IF o \in S /\ ptyRef[o] /\ ptyProc[o] = "running"
                        THEN "killed" ELSE ptyProc[o]]
    /\ ptyRef'    = [o \in PtyObjects |-> IF o \in S THEN FALSE ELSE ptyRef[o]]
    /\ isRunning' = [o \in PtyObjects |->
                        IF o \in S THEN FALSE ELSE isRunning[o]]
    /\ isReady'   = [o \in PtyObjects |-> IF o \in S THEN FALSE ELSE isReady[o]]

\* kill()
ptyKill(o) ==
    /\ o \in 1..nPty
    /\ ptyKillAll({o})
    /\ UNCHANGED <<activeSessions, nPty, lastActivity, outputBuffer,
                   ptyPendingResolve, ptySessionId, ptyWorkingDir, ptyKey,
                   listeners, ptySendVars, ptyClock, swept,
                   ptyFrame>>

\* --------------------------------------------------------- the registry
\* A plausible slip: a new Session is registered whatever the entry.
ptyGetOrCreateSession_alwaysNew(channelId, userId, options) ==
    LET key == Key(channelId, userId) IN
    /\ nPty < MaxPty
    /\ LET s == nPty + 1 IN
       /\ nPty'           = s
       /\ ptySessionId'   = [ptySessionId EXCEPT ![s] = options.sessionId]
       /\ ptyWorkingDir'  = [ptyWorkingDir EXCEPT ![s] = options.workingDir]
       /\ lastActivity'   = [lastActivity EXCEPT ![s] = ptyClock]
       /\ ptyProc'        = [ptyProc EXCEPT ![s] = "running"]
       /\ ptyRef'         = [ptyRef EXCEPT ![s] = TRUE]
       /\ isRunning'      = [isRunning EXCEPT ![s] = TRUE]
       /\ ptyKey'         = [ptyKey EXCEPT ![s] = key]
       /\ activeSessions' = [activeSessions EXCEPT ![key] = s]
    /\ UNCHANGED <<isReady, outputBuffer, ptyPendingResolve, listeners,
                   ptySendVars, ptyClock, swept, ptyFrame>>

\* export function getOrCreateSession(channelId, userId, options = {})
ptyGetOrCreateSession(channelId, userId, options) ==
    LET key     == Key(channelId, userId)
        session == activeSessions[key]
    IN
    /\ IF session = NoRef \/ ~isRunning[session]
       THEN \* new ClaudeSession({...}); session.start(); activeSessions.set
            /\ nPty < MaxPty
            /\ LET s == nPty + 1 IN
               /\ nPty'           = s
               /\ ptySessionId'   = [ptySessionId EXCEPT ![s] = options.sessionId]
               /\ ptyWorkingDir'  = [ptyWorkingDir EXCEPT ![s] =
                                       IF options.workingDir # NULL
                                       THEN options.workingDir ELSE Cwd]
               /\ lastActivity'   = [lastActivity EXCEPT ![s] = ptyClock]
               /\ ptyProc'        = [ptyProc EXCEPT ![s] = "running"]
               /\ ptyRef'         = [ptyRef EXCEPT ![s] = TRUE]
               /\ isRunning'      = [isRunning EXCEPT ![s] = TRUE]
               /\ ptyKey'         = [ptyKey EXCEPT ![s] = key]
               /\ activeSessions' = [activeSessions EXCEPT ![key] = s]
       ELSE UNCHANGED <<nPty, ptySessionId, ptyWorkingDir, lastActivity,
                        ptyProc, ptyRef, isRunning, ptyKey, activeSessions>>
    /\ UNCHANGED <<isReady, outputBuffer, ptyPendingResolve, listeners,
                   ptySendVars, ptyClock, swept, ptyFrame>>

\* A plausible slip: the entry is deleted and the Session left running.
killSession_deleteOnly(channelId, userId) ==
    LET key == Key(channelId, userId) IN
    /\ activeSessions[key] # NoRef
    /\ activeSessions' = [activeSessions EXCEPT ![key] = NoRef]
    /\ UNCHANGED <<ptyObjVars, ptySendVars, ptyClock, swept,
                   ptyFrame>>

\* export function killSession(channelId, userId)
killSession(channelId, userId) ==
    LET key     == Key(channelId, userId)
        session == activeSessions[key]
    IN
    /\ session # NoRef
    /\ ptyKillAll({session})
    /\ activeSessions' = [activeSessions EXCEPT ![key] = NoRef]
    /\ UNCHANGED <<nPty, lastActivity, outputBuffer, ptyPendingResolve,
                   ptySessionId, ptyWorkingDir, ptyKey, listeners,
                   ptySendVars, ptyClock, swept, ptyFrame>>

\* A plausible slip: the threshold itself counts as stale.
stale_inclusive(now, last) == now - last >= STALE_THRESHOLD

\* now - session.lastActivity > STALE_THRESHOLD
stale(now, last) == now - last > STALE_THRESHOLD

\* export function cleanupStaleSessions()
cleanupStaleSessions ==
    LET staleKeys == { k \in PtyKeys :
                         /\ activeSessions[k] # NoRef
                         /\ stale(ptyClock, lastActivity[activeSessions[k]]) }
        S         == { activeSessions[k] : k \in staleKeys }
    IN
    /\ staleKeys # {}
    /\ ptyKillAll(S)
    /\ activeSessions' = [k \in PtyKeys |->
                             IF k \in staleKeys THEN NoRef
                             ELSE activeSessions[k]]
    /\ swept' = swept \cup S
    /\ UNCHANGED <<nPty, lastActivity, outputBuffer, ptyPendingResolve,
                   ptySessionId, ptyWorkingDir, ptyKey, listeners,
                   ptySendVars, ptyClock, ptyFrame>>

\* time passes
ptyTick ==
    /\ ptyClock + PtyStep <= MaxTicks * PtyStep
    /\ ptyClock' = ptyClock + PtyStep
    /\ UNCHANGED <<activeSessions, ptyObjVars, ptySendVars, swept,
                   ptyFrame>>

\* The lookup specification: getOrCreateSession with every kind of options,
\* killSession, and the exit of the terminals.
NextPtyCreate ==
    \/ \E ch \in PtyChannelIds, u \in PtyUserIds, o \in Options :
           ptyGetOrCreateSession(ch, u, o)
    \/ \E ch \in PtyChannelIds, u \in PtyUserIds : killSession(ch, u)
    \/ \E o \in PtyObjects : ptyOnExit(o)

SpecPtyCreate == Init /\ [][NextPtyCreate]_vars

\* The registry specification: the registry operations (called without a
\* resume identity), the sweep, the clock, and the activity and exit of
\* the terminals.
NoResume == [sessionId |-> NULL, workingDir |-> "d"]

NextPtyReg ==
    \/ \E ch \in PtyChannelIds, u \in PtyUserIds :
           ptyGetOrCreateSession(ch, u, NoResume)
    \/ \E ch \in PtyChannelIds, u \in PtyUserIds : killSession(ch, u)
    \/ cleanupStaleSessions
    \/ \E o \in PtyObjects : ptyOnData(o, PtyEscape)
    \/ \E o \in PtyObjects : ptyOnExit(o)
    \/ ptyTick

SpecPtyReg == Init /\ [][NextPtyReg]_vars

\* The send specification: one started Session, its sends, its terminal
\* and its timers.
InitPtySend ==
    /\ SessInit /\ DecIdle /\ BotIdle /\ LaterIdle
    /\ activeSessions    = [k \in PtyKeys |->
                               IF k = Key("a", "u") THEN 1 ELSE NoRef]
    /\ nPty              = 1
    /\ ptyProc           = [o \in PtyObjects |->
                               IF o = 1 THEN "running" ELSE "none"]
    /\ ptyRef            = [o \in PtyObjects |-> o = 1]
    /\ isRunning         = [o \in PtyObjects |-> o = 1]
    /\ isReady           = [o \in PtyObjects |-> FALSE]
    /\ lastActivity      = [o \in PtyObjects |-> 0]
    /\ outputBuffer      = [o \in PtyObjects |-> <<>>]
    /\ ptyPendingResolve = [o \in PtyObjects |-> NoRef]
    /\ ptySessionId      = [o \in PtyObjects |-> NULL]
    /\ ptyWorkingDir     = [o \in PtyObjects |-> IF o = 1 THEN "d" ELSE Cwd]
    /\ ptyKey            = [o \in PtyObjects |->
                               IF o = 1 THEN Key("a", "u") ELSE NULL]
    /\ listeners         = [o \in PtyObjects |-> <<>>]
    /\ nSends            = 0
    /\ psend             = [i \in Sends |-> NoSend]
    /\ written           = <<>>
    /\ readyCount        = 0
    /\ ptyClock          = 0
    /\ swept             = {}

NextPtySend ==
    \/ \E o \in PtyObjects : ptySend(o)
    \/ \E o \in PtyObjects, d \in {PtyText, PtyPrompt, PtyIdent} :
           ptyOnData(o, d)
    \/ \E i \in Sends : readyTimeout(i)
    \/ \E i \in Sends : responseTimeout(i)
    \/ \E o \in PtyObjects : ptyOnExit(o)
    \/ \E o \in PtyObjects : ptyKill(o)

SpecPtySend == InitPtySend /\ [][NextPtySend]_vars

\* The sweep specification: the sends and timers of one started Session
\* under the clock, with the sweep. Time moves in steps of the response
\* timeout; a timer runs before time passes its deadline.
RESPONSE_TIMEOUT == 300000
MaxSweepTicks    == 8

\* no timer is overdue at the time now
TimersRun(now) ==
    \A i \in 1..nSends :
        /\ psend[i].readyTimer # "armed"
        /\ psend[i].timeout = "armed" => now <= psend[i].at + RESPONSE_TIMEOUT

ptySweepTick ==
    /\ ptyClock + RESPONSE_TIMEOUT <= MaxSweepTicks * RESPONSE_TIMEOUT
    /\ TimersRun(ptyClock + RESPONSE_TIMEOUT)
    /\ ptyClock' = ptyClock + RESPONSE_TIMEOUT
    /\ UNCHANGED <<activeSessions, ptyObjVars, ptySendVars, swept,
                   ptyFrame>>

\* the response timer fires at its deadline
responseTimeoutDue(i) ==
    /\ i \in 1..nSends
    /\ ptyClock = psend[i].at + RESPONSE_TIMEOUT
    /\ responseTimeout(i)

NextPtySweep ==
    \/ ptySend(1)
    \/ \E d \in {PtyText, PtyPrompt} : ptyOnData(1, d)
    \/ \E i \in Sends : readyTimeout(i)
    \/ \E i \in Sends : responseTimeoutDue(i)
    \/ cleanupStaleSessions
    \/ ptySweepTick

SpecPtySweep == InitPtySend /\ [][NextPtySweep]_vars

\* ======================================================================
\* The PTY bot: handleClaude (src/bot.js), one call per Turn of one Session
\* ======================================================================
\* const EDIT_INTERVAL = 1000; the clock moves in half intervals
EDIT_INTERVAL == 1000
HcStep        == EDIT_INTERVAL \div 2

hcFrame == <<coreVars, lockVars, fnVars, hmVars, cmVars>>

\* the call whose send() is pending, if any
Current == { t \in 1..nCalls : hc[t].pc = "awaitSend" }

\* if (Date.now() - lastEdit > EDIT_INTERVAL) { await editReply(...); ... }
\* up to the await: lastEdit is assigned when the edit has completed.
hcEdit(h, log) ==
    IF hcClock - h.lastEdit > EDIT_INTERVAL
    THEN [h   |-> h,
          log |-> Append(log, [at |-> hcClock, final |-> FALSE,
                               done |-> FALSE, stamp |-> TRUE])]
    ELSE [h |-> h, log |-> log]

\* const outputHandler = async (chunk) => { ... } of call t, for a chunk
\* that belongs to the Turn of call c
outputHandler(t, c) ==
    LET h == [hc[t] EXCEPT !.outputBuffer = @ + 1,
                           !.foreign = @ \/ t # c]
    IN  hcEdit(h, hcEdits[t])

\* handleClaude up to `await session.send(message)`
handleClaude ==
    /\ nCalls < MaxCalls
    /\ Current = {}
    /\ nCalls' = nCalls + 1
    /\ hc' = [hc EXCEPT ![nCalls + 1] =
                 [pc |-> "awaitSend", outputBuffer |-> 0,
                  lastEdit |-> hcClock, attached |-> TRUE,
                  foreign |-> FALSE]]
    /\ UNCHANGED <<hcClock, hcEdits, hcFrame>>

\* the Session emits 'output' during the pending Turn: every attached
\* outputHandler runs
onOutput ==
    \E c \in Current :
        /\ hc[c].outputBuffer < MaxChunks
        /\ hc' = [t \in Calls |->
                     IF t <= nCalls /\ hc[t].attached
                     THEN outputHandler(t, c).h ELSE hc[t]]
        /\ hcEdits' = [t \in Calls |->
                          IF t <= nCalls /\ hc[t].attached
                          THEN outputHandler(t, c).log ELSE hcEdits[t]]
        /\ UNCHANGED <<hcClock, nCalls, hcFrame>>

\* await session.send(message) returns: session.off(...), final response
hcSendResolved(t) ==
    /\ t \in Current
    /\ hc' = [hc EXCEPT ![t].pc = "done", ![t].attached = FALSE]
    /\ hcEdits' = [hcEdits EXCEPT ![t] =
                      Append(@, [at |-> hcClock, final |-> TRUE,
                                 done |-> FALSE, stamp |-> FALSE])]
    /\ UNCHANGED <<hcClock, nCalls, hcFrame>>

\* await session.send(message) throws: catch (error) { editReply(...) }
hcSendRejected(t) ==
    /\ t \in Current
    /\ hc' = [hc EXCEPT ![t].pc = "failed"]
    /\ hcEdits' = [hcEdits EXCEPT ![t] =
                      Append(@, [at |-> hcClock, final |-> TRUE,
                                 done |-> FALSE, stamp |-> FALSE])]
    /\ UNCHANGED <<hcClock, nCalls, hcFrame>>

\* Discord completes the oldest edit in flight of call t; the outputHandler
\* that awaited it goes on: lastEdit = Date.now()
hcEditDone(t) ==
    /\ t \in 1..nCalls
    /\ \E k \in 1..Len(hcEdits[t]) :
          /\ ~hcEdits[t][k].done
          /\ \A j \in 1..(k - 1) : hcEdits[t][j].done
          /\ hcEdits' = [hcEdits EXCEPT ![t][k].done = TRUE]
          /\ hc' = IF hcEdits[t][k].stamp
                   THEN [hc EXCEPT ![t].lastEdit = hcClock] ELSE hc
    /\ UNCHANGED <<hcClock, nCalls, hcFrame>>

\* time passes
hcAdvance ==
    /\ hcClock + HcStep <= MaxHcTime
    /\ hcClock' = hcClock + HcStep
    /\ UNCHANGED <<nCalls, hc, hcEdits, hcFrame>>

NextHc ==
    \/ handleClaude
    \/ onOutput
    \/ \E t \in Calls : hcSendResolved(t)
    \/ \E t \in Calls : hcSendRejected(t)
    \/ \E t \in Calls : hcEditDone(t)
    \/ hcAdvance

SpecHc == Init /\ [][NextHc]_vars

\* ======================================================================
\* The entry point (src/index.js): lock file and singleton enforcement
\* ======================================================================
lockFrame == <<coreVars, hcVars, fnVars, hmVars, cmVars>>

\* process.kill(pid, 0) succeeds
Alive(p) == inst[p].pc \notin {"off", "exited"}

\* node index.js: a new process p
launch(p) ==
    /\ inst[p].pc = "off"
    /\ inst' = [inst EXCEPT ![p].pc = "check"]
    /\ UNCHANGED <<lockFile, lockFrame>>

\* enforceSingleton: existsSync / JSON.parse(readFileSync(LOCK_FILE))
readLock(p) ==
    /\ inst[p].pc = "check"
    /\ inst' = [inst EXCEPT ![p].oldPid = lockFile,
                            ![p].pc = IF lockFile # NoLock /\ lockFile # p
                                      THEN "kill" ELSE "write"]
    /\ UNCHANGED <<lockFile, lockFrame>>

\* enforceSingleton: process.kill(oldPid, 0); process.kill(oldPid, 'SIGTERM')
killOld(p) ==
    /\ inst[p].pc = "kill"
    /\ LET q == inst[p].oldPid
       IN  inst' = [inst EXCEPT ![p].pc = "write",
                                ![q].sig = @ \/ Alive(q)]
    /\ UNCHANGED <<lockFile, lockFrame>>

\* enforceSingleton: writeFileSync(LOCK_FILE, ...); startup goes on
writeLock(p) ==
    /\ inst[p].pc = "write"
    /\ lockFile' = p
    /\ inst' = [inst EXCEPT ![p].pc = "running"]
    /\ UNCHANGED lockFrame

\* bot.start().catch(...): process.exit(1) without fullCleanup
startFailed(p) ==
    /\ inst[p].pc = "running"
    /\ inst' = [inst EXCEPT ![p].pc = "exit"]
    /\ UNCHANGED <<lockFile, lockFrame>>

\* process.on('SIGTERM' | 'SIGINT', ...) up to removeLockFile
onSignal(p) ==
    /\ inst[p].pc = "running"
    /\ inst' = [inst EXCEPT ![p].pc = "cleanup"]
    /\ UNCHANGED <<lockFile, lockFrame>>

\* removeLockFile: existsSync, readFileSync, lockData.pid === process.pid
removeRead(p, unlink, skip) ==
    /\ inst[p].pc \in {"cleanup", "exit"}
    /\ inst' = [inst EXCEPT ![p].pc = IF lockFile = p
                                      THEN unlink ELSE skip]
    /\ UNCHANGED <<lockFile, lockFrame>>

\* removeLockFile: unlinkSync(LOCK_FILE)
removeUnlink(p, next) ==
    /\ inst[p].pc \in {"cleanupUnlink", "exitUnlink"}
    /\ lockFile' = NoLock
    /\ inst' = [inst EXCEPT ![p].pc = next]
    /\ UNCHANGED lockFrame

\* fullCleanup in the signal handler, then process.exit(0)
cleanupRead(p)   == inst[p].pc = "cleanup" /\ removeRead(p, "cleanupUnlink", "exit")
cleanupUnlink(p) == inst[p].pc = "cleanupUnlink" /\ removeUnlink(p, "exit")

\* process.on('exit', ...) calls removeLockFile once more
exitRead(p)   == inst[p].pc = "exit" /\ removeRead(p, "exitUnlink", "exited")
exitUnlink(p) == inst[p].pc = "exitUnlink" /\ removeUnlink(p, "exited")

NextLock ==
    \E p \in Pids :
        \/ launch(p)
        \/ readLock(p)
        \/ killOld(p)
        \/ writeLock(p)
        \/ startFailed(p)
        \/ inst[p].sig /\ onSignal(p)
        \/ ~inst[p].sig /\ onSignal(p)
        \/ cleanupRead(p)
        \/ cleanupUnlink(p)
        \/ exitRead(p)
        \/ exitUnlink(p)

SpecLock == Init /\ [][NextLock]_vars

\* ======================================================================
\* The stream-json bot: handleMessage calls on one Session (part_000)
\* ======================================================================
hmFrame == <<coreVars, hcVars, lockVars, fnVars, cmVars>>

\* session.on('text' | 'thinking' | 'tool_use' | 'status', ...)
HmEvents == {"text", "thinking", "tool_use", "status"}

\* a finally clause that stops the animation and forgets the listeners
finally_intervalOnly(h, pc) == [h EXCEPT !.pc = pc, !.interval = FALSE]

\* finally { clearInterval(statusInterval); session.off(...) four times }
finally(h, pc) ==
    [h EXCEPT !.pc = pc, !.interval = FALSE, !.listening = {}]

\* handleMessage while the Session is processing: the notice, then return
hmBusy ==
    /\ nHm < MaxHm
    /\ hmProcessing
    /\ nHm' = nHm + 1
    /\ hm' = [hm EXCEPT ![nHm + 1].pc = "returned"]
    /\ UNCHANGED <<hmProcessing, hmFrame>>

\* throw new Error('Already processing a message. Please wait.')
AlreadyProcessing == "Already processing a message. Please wait."

\* handleMessage from the isProcessing check to its first await
\* (sendTyping, processAttachment, message.reply)
hmHandle ==
    /\ nHm < MaxHm
    /\ ~hmProcessing
    /\ nHm' = nHm + 1
    /\ hm' = [hm EXCEPT ![nHm + 1].pc = "awaitReply"]
    /\ UNCHANGED <<hmProcessing, hmFrame>>

\* message.reply settled: the interval and the listeners are set up and
\* session.send(contentArray) is called; it throws if the Session is
\* processing, else the Turn starts
hmSend(t) ==
    /\ hm[t].pc = "awaitReply"
    /\ IF hmProcessing
       THEN /\ hm' = [hm EXCEPT ![t] =
                        [pc |-> "awaitErrorEdit", interval |-> TRUE,
                         listening |-> HmEvents,
                         error |-> AlreadyProcessing]]
            /\ UNCHANGED hmProcessing
       ELSE /\ hm' = [hm EXCEPT ![t] =
                        [pc |-> "awaitSend", interval |-> TRUE,
                         listening |-> HmEvents, error |-> NULL]]
            /\ hmProcessing' = TRUE
    /\ UNCHANGED <<nHm, hmFrame>>

\* sendTyping, processAttachment or message.reply throws: the outer catch
hmReplyFails(t) ==
    /\ hm[t].pc = "awaitReply"
    /\ hm' = [hm EXCEPT ![t].pc = "awaitFatalSend",
                        ![t].error = "discord"]
    /\ UNCHANGED <<nHm, hmProcessing, hmFrame>>

\* send() resolves: the final update is awaited
hmSendResolved(t) ==
    /\ hm[t].pc = "awaitSend"
    /\ hm' = [hm EXCEPT ![t].pc = "awaitFinalEdit"]
    /\ hmProcessing' = FALSE
    /\ UNCHANGED <<nHm, hmFrame>>

\* send() rejects: catch (error) { await replyMessage.edit(formatError) }
hmSendRejected(t) ==
    /\ hm[t].pc = "awaitSend"
    /\ hm' = [hm EXCEPT ![t].pc = "awaitErrorEdit",
                        ![t].error = "rejected"]
    /\ hmProcessing' = FALSE
    /\ UNCHANGED <<nHm, hmFrame>>

\* the final edit and the sends after it succeed: finally
hmFinalOk(t) ==
    /\ hm[t].pc = "awaitFinalEdit"
    /\ hm' = [hm EXCEPT ![t] = finally(@, "done")]
    /\ UNCHANGED <<nHm, hmProcessing, hmFrame>>

\* the final edit or a send after it throws: catch (error)
hmFinalFails(t) ==
    /\ hm[t].pc = "awaitFinalEdit"
    /\ hm' = [hm EXCEPT ![t].pc = "awaitErrorEdit",
                        ![t].error = "discord"]
    /\ UNCHANGED <<nHm, hmProcessing, hmFrame>>

\* the edit of the catch clause succeeds: finally
hmErrorOk(t) ==
    /\ hm[t].pc = "awaitErrorEdit"
    /\ hm' = [hm EXCEPT ![t] = finally(@, "done")]
    /\ UNCHANGED <<nHm, hmProcessing, hmFrame>>

\* the edit of the catch clause throws: finally, then the outer catch
hmErrorFails(t) ==
    /\ hm[t].pc = "awaitErrorEdit"
    /\ hm' = [hm EXCEPT ![t] = finally(@, "awaitFatalSend")]
    /\ UNCHANGED <<nHm, hmProcessing, hmFrame>>

\* await message.channel.send(formatError(error)) settles
hmFatalSent(t) ==
    /\ hm[t].pc = "awaitFatalSend"
    /\ hm' = [hm EXCEPT ![t].pc = "done"]
    /\ UNCHANGED <<nHm, hmProcessing, hmFrame>>

NextHm ==
    \/ hmBusy
    \/ hmHandle
    \/ \E t \in HmCalls :
          \/ hmSend(t)
          \/ hmReplyFails(t)
          \/ hmSendResolved(t)
          \/ hmSendRejected(t)
          \/ hmFinalOk(t)
          \/ hmFinalFails(t)
          \/ hmErrorOk(t)
          \/ hmErrorFails(t)
          \/ hmFatalSent(t)

SpecHm == Init /\ [][NextHm]_vars

\* ======================================================================
\* The stream-json bot: commands, messages and the session store (part_000)
\* ======================================================================
cmFrame == <<coreVars, hcVars, lockVars, fnVars, hmVars>>

\* the rows of the pair with is_active = 1
ActiveRows(channelId, userId) ==
    { r \in 1..Len(rows) : /\ rows[r].channel = channelId
                           /\ rows[r].user = userId
                           /\ rows[r].active }

\* deactivateSession(id)
deactivateSession(rs, id) == [rs EXCEPT ![id].active = FALSE]

\* a start that leaves the existing row as it is
deactivateExisting_skipped(rs, existing) == rs

\* const existing = getActiveSession(...);
\* if (existing) deactivateSession(existing.id);
deactivateExisting(rs, existing) ==
    IF existing # NoRef THEN deactivateSession(rs, existing) ELSE rs

\* getActiveSession(channelId, userId): the row it returns, NoRef for null
Returned(channelId, userId, r) ==
    IF ActiveRows(channelId, userId) = {} THEN r = NoRef
    ELSE r \in ActiveRows(channelId, userId)

\* handleClaudeStart, from removeSession to getOrCreateSession
handleClaudeStart(channelId, userId) ==
    LET pair == <<channelId, userId>> IN
    /\ Len(rows) < MaxRows
    /\ \E existing \in 0..Len(rows) :
          /\ Returned(channelId, userId, existing)
          /\ rows' = Append(deactivateExisting(rows, existing),
                            [channel |-> channelId, user |-> userId,
                             active |-> TRUE])
    /\ cmSessions' = cmSessions \cup {pair}
    /\ cmProcessing' = cmProcessing \ {pair}
    /\ cmLast' = <<"started", pair>>
    /\ UNCHANGED <<allowedUsers, allowedChannels, cmFrame>>

\* handleClaudeStop
handleClaudeStop(channelId, userId) ==
    LET pair == <<channelId, userId>> IN
    /\ \E dbSession \in 0..Len(rows) :
          /\ Returned(channelId, userId, dbSession)
          /\ rows' = IF dbSession # NoRef
                     THEN deactivateSession(rows, dbSession) ELSE rows
          /\ cmLast' = <<IF pair \in cmSessions \/ dbSession # NoRef
                         THEN "ended" ELSE "nothing to stop", pair>>
    /\ cmSessions' = cmSessions \ {pair}
    /\ cmProcessing' = cmProcessing \ {pair}
    /\ UNCHANGED <<allowedUsers, allowedChannels, cmFrame>>

\* a filter that looks at the channel only
Permitted_channelOnly(channelId, userId) ==
    allowedChannels # {} => channelId \in allowedChannels

\* ALLOWED_CHANNELS.length > 0 && !ALLOWED_CHANNELS.includes(...) return;
\* ALLOWED_USERS.length > 0 && !ALLOWED_USERS.includes(...) return;
Permitted(channelId, userId) ==
    /\ allowedChannels # {} => channelId \in allowedChannels
    /\ allowedUsers # {} => userId \in allowedUsers

\* handleMessage up to session.send(contentArray)
cmHandleMessage(channelId, userId) ==
    LET pair == <<channelId, userId>> IN
    /\ IF ~Permitted(channelId, userId)
       THEN /\ cmLast' = <<"ignored", pair>>
            /\ UNCHANGED cmProcessing
       ELSE IF pair \notin cmSessions
       THEN /\ cmLast' = <<"no session", pair>>
            /\ UNCHANGED cmProcessing
       ELSE IF pair \in cmProcessing
       THEN /\ cmLast' = <<"notice", pair>>
            /\ UNCHANGED cmProcessing
       ELSE /\ cmLast' = <<"sent", pair>>
            /\ cmProcessing' = cmProcessing \cup {pair}
    /\ UNCHANGED <<allowedUsers, allowedChannels, cmSessions, rows, cmFrame>>

\* the Turn of the pair's Session is settled
cmTurnEnds(channelId, userId) ==
    LET pair == <<channelId, userId>> IN
    /\ pair \in cmProcessing
    /\ cmProcessing' = cmProcessing \ {pair}
    /\ cmLast' = <<"settled", pair>>
    /\ UNCHANGED <<allowedUsers, allowedChannels, cmSessions, rows, cmFrame>>

InitCm ==
    /\ SessInit /\ DecIdle /\ BotIdle /\ PtyIdle
    /\ HcIdle /\ LockIdle /\ HmIdle /\ FnIdle
    /\ allowedUsers \in SUBSET CmUsers
    /\ allowedChannels \in SUBSET CmChannels
    /\ cmSessions = {} /\ cmProcessing = {}
    /\ rows = <<>>
    /\ cmLast = <<"none", <<"c", "u">>>>

NextCm ==
    \E channelId \in CmChannels, userId \in CmUsers :
        \/ handleClaudeStart(channelId, userId)
        \/ handleClaudeStop(channelId, userId)
        \/ cmHandleMessage(channelId, userId)
        \/ cmTurnEnds(channelId, userId)

SpecCm == InitCm /\ [][NextCm]_vars

\* ======================================================================
\* Functions of the formatters and the decoder, applied on their own
\* ======================================================================
fnFrame == <<coreVars, hcVars, lockVars, hmVars, cmVars>>

CoreIdle == SessInit /\ DecIdle /\ BotIdle /\ PtyIdle

\* ---- splitMessage (stream-json formatter) ----------------------------
\* strings are sequences of characters: a letter, a blank, a line feed
MaxContent   == 6
MaxMaxLength == 3

SplitChars == {"x", " ", NL}
WhiteSpace == {" ", NL}

\* String.prototype.lastIndexOf(ch, fromIndex), indices from 0, -1 if none
lastIndexOf(str, ch, fromIndex) ==
    LET at == { i \in 0..(Len(str) - 1) : i <= fromIndex /\ str[i + 1] = ch }
    IN  IF at = {} THEN -1 ELSE CHOOSE i \in at : \A j \in at : j <= i

\* String.prototype.substring
substring(str, from, to) == SubSeq(str, from + 1, to)

\* String.prototype.trimStart
RECURSIVE String_trimStart(_)
String_trimStart(str) ==
    IF str # <<>> /\ Head(str) \in WhiteSpace
    THEN String_trimStart(Tail(str)) ELSE str

\* splitIndex < maxLength * 0.5
TooEarly(splitIndex, maxLength) == 2 * splitIndex < maxLength

\* a search that starts one character past the limit
splitIndex_pastLimit(remaining, maxLength) ==
    LET atNewline == lastIndexOf(remaining, NL, maxLength + 1)
        atSpace   == lastIndexOf(remaining, " ", maxLength + 1)
        second    == IF atNewline = -1 \/ TooEarly(atNewline, maxLength)
                     THEN atSpace ELSE atNewline
    IN  IF second = -1 \/ TooEarly(second, maxLength)
        THEN maxLength ELSE second

\* the split point of one round of the loop
splitIndex(remaining, maxLength) ==
    LET atNewline == lastIndexOf(remaining, NL, maxLength)
        atSpace   == lastIndexOf(remaining, " ", maxLength)
        second    == IF atNewline = -1 \/ TooEarly(atNewline, maxLength)
                     THEN atSpace ELSE atNewline
    IN  IF second = -1 \/ TooEarly(second, maxLength)
        THEN maxLength ELSE second

\* while (remaining.length > 0) { ... }
RECURSIVE splitLoop(_, _, _)
splitLoop(remaining, chunks, maxLength) ==
    IF Len(remaining) = 0 THEN chunks
    ELSE IF Len(remaining) <= maxLength THEN Append(chunks, remaining)
    ELSE LET at == splitIndex(remaining, maxLength)
         IN  splitLoop(
                String_trimStart(substring(remaining, at, Len(remaining))),
                Append(chunks, substring(remaining, 0, at)),
                maxLength)

splitMessage(content, maxLength) ==
    IF Len(content) <= maxLength THEN <<content>>
    ELSE splitLoop(content, <<>>, maxLength)

InitSplit ==
    /\ CoreIdle /\ HcIdle /\ LockIdle /\ HmIdle /\ CmIdle
    /\ fnIn \in [content   : SeqsUpTo(SplitChars, MaxContent),
                 maxLength : 1..MaxMaxLength]
    /\ fnOut = <<>>
    /\ fnDone = FALSE

callSplitMessage ==
    /\ ~fnDone
    /\ fnOut' = splitMessage(fnIn.content, fnIn.maxLength)
    /\ fnDone' = TRUE
    /\ UNCHANGED <<fnIn, fnFrame>>

NextSplit == callSplitMessage

SpecSplit == InitSplit /\ [][NextSplit]_vars

\* ---- tool status (stream-json decoder) -------------------------------
\* a command is the sequence of its character positions, a path a sequence
\* of characters; an absent or empty argument is the empty sequence
CommandLimit == 30
MaxCommand   == 32
MaxPath      == 5

PathChars == {"a", "/", "\\"}
ToolNames == {"Read", "Write", "Edit", "Bash", "Grep", "Glob", "WebFetch",
              "Task", "TodoWrite", NULL}

Command(n) == [i \in 1..n |-> i]
Commands   == { Command(n) : n \in {0, 1, CommandLimit - 1, CommandLimit,
                                    CommandLimit + 1, MaxCommand} }

\* path.replace(/\\/g, '/')
replaceBackslashes(path) ==
    [i \in 1..Len(path) |-> IF path[i] = "\\" THEN "/" ELSE path[i]]

\* String.prototype.split('/')
RECURSIVE splitSlash(_, _, _)
splitSlash(str, parts, part) ==
    IF str = <<>> THEN Append(parts, part)
    ELSE IF Head(str) = "/"
         THEN splitSlash(Tail(str), Append(parts, part), <<>>)
         ELSE splitSlash(Tail(str), parts, Append(part, Head(str)))

\* a shortening that keeps the file name only
shortenPath_lastOnly(path) ==
    IF path = <<>> THEN <<>>
    ELSE LET parts == splitSlash(replaceBackslashes(path), <<>>, <<>>)
             n     == Len(parts)
         IN  IF n > 2 THEN <<".../">> \o parts[n] ELSE path

\* shortenPath(path)
shortenPath(path) ==
    IF path = <<>> THEN <<>>
    ELSE LET parts == splitSlash(replaceBackslashes(path), <<>>, <<>>)
             n     == Len(parts)
         IN  IF n > 2
             THEN <<".../">> \o parts[n - 1] \o <<"/">> \o parts[n]
             ELSE path

\* handleJsonLine, case tool_use: the status of one block
toolStatus(block) ==
    LET toolName  == IF block.name # NULL THEN block.name ELSE "Tool"
        toolInput == block.input
    IN  IF toolName = "Read" /\ toolInput.file_path # <<>>
        THEN <<"Reading ">> \o shortenPath(toolInput.file_path)
        ELSE IF toolName = "Write" /\ toolInput.file_path # <<>>
        THEN <<"Writing ">> \o shortenPath(toolInput.file_path)
        ELSE IF toolName = "Edit" /\ toolInput.file_path # <<>>
        THEN <<"Editing ">> \o shortenPath(toolInput.file_path)
        ELSE IF toolName = "Bash" /\ toolInput.command # <<>>
        THEN <<"Running: ">>
                 \o substring(toolInput.command, 0,
                              IF Len(toolInput.command) < CommandLimit
                              THEN Len(toolInput.command) ELSE CommandLimit)
                 \o (IF Len(toolInput.command) > CommandLimit
                     THEN <<"...">> ELSE <<>>)
        ELSE IF toolName = "Grep" \/ toolName = "Glob"
        THEN <<"Searching...">>
        ELSE IF toolName = "WebFetch" THEN <<"Fetching web content">>
        ELSE IF toolName = "Task" THEN <<"Spawning agent...">>
        ELSE <<toolName>>

InitTool ==
    /\ CoreIdle /\ HcIdle /\ LockIdle /\ HmIdle /\ CmIdle
    /\ fnIn \in [name  : ToolNames,
                 input : [file_path : SeqsUpTo(PathChars, MaxPath),
                          command   : Commands]]
    /\ fnOut = <<>>
    /\ fnDone = FALSE

callToolStatus ==
    /\ ~fnDone
    /\ fnOut' = toolStatus(fnIn)
    /\ fnDone' = TRUE
    /\ UNCHANGED <<fnIn, fnFrame>>

NextTool == callToolStatus

SpecTool == InitTool /\ [][NextTool]_vars

\* ---- isWaitingForInput (PTY formatter) ------------------------------
MaxPtyData == 4

PtyChars == {"x", ">", "?", " ", "nl", "esc", "ind"}

InitReady ==
    /\ CoreIdle /\ HcIdle /\ LockIdle /\ HmIdle /\ CmIdle
    /\ fnIn \in SeqsUpTo(PtyChars, MaxPtyData)
    /\ fnOut = FALSE
    /\ fnDone = FALSE

\* pty.onData: if (isWaitingForInput(data)) { this.isReady = true; ... }
callIsWaitingForInput ==
    /\ ~fnDone
    /\ fnOut' = isWaitingForInput(fnIn)
    /\ fnDone' = TRUE
    /\ UNCHANGED <<fnIn, fnFrame>>

NextReady == callIsWaitingForInput

SpecReady == InitReady /\ [][NextReady]_vars


\* =====================================================================
\* Properties of the structured-mode ClaudeSession
\* =====================================================================
\* The Turns of Session s whose promise is not settled yet.
PendingTurns(s) ==
    { c \in Children : child[c].owner = s /\ turn[c].status = "pending" }

\* The step is a send() on s that was accepted (it spawned a child).
Accepted(s) == nChildren' # nChildren /\ child'[nChildren'].owner = s

\* C1: of the send() calls issued on a Session before the first one's Turn
\* has ended exactly one is accepted: while a Turn of the Session is
\* unsettled no further send() spawns a child (it throws 'Already
\* processing'), and an accepted send() leaves exactly one unsettled Turn.
\* Checked for callers that only send (SpecSend).
C1_ExactlyOneAccepted ==
    [][\A s \in Objects :
          /\ PendingTurns(s) # {} => ~Accepted(s)
          /\ Accepted(s) => Cardinality(PendingTurns(s)') = 1]_vars

\* One send() accepted and two rejected while its Turn is still in flight.
C1_Witness ==
    \E s \in Objects :
        /\ nRejected[s] = 2
        /\ Cardinality({ c \in Children : child[c].owner = s }) = 1
        /\ PendingTurns(s) # {}

\* C2: in every reachable state at most one Turn of a Session is unsettled.
C2_AtMostOneUnsettledTurn ==
    \A s \in Objects : Cardinality(PendingTurns(s)) <= 1

\* C3: every accepted send() gets exactly one terminal outcome, from an
\* event of its own child or its own timer, and is not left pending once
\* its child has closed and its timer can no longer fire.
C3_SingleTerminalOutcome ==
    \A c \in Children :
        /\ turn[c].status \in {"resolved", "rejected"} => turn[c].of = c
        /\ (child[c].state = "closed" /\ timer[c] # "armed")
               => turn[c].status # "pending"

\* C4: a send() rejected with 'Already processing' changes no field of any
\* Session, spawns no child, arms or clears no timer and settles no Turn.
C4_RejectedSendLeavesSessionUnaffected ==
    [][(\E s \in Objects : nRejected'[s] # nRejected[s])
          => UNCHANGED <<sessVars, childVars>>]_vars

\* A send() was rejected while a Turn with output was in flight, and that
\* Turn has completed with its own result.
C4_Witness ==
    \E c \in 1..nChildren :
        /\ nRejected[child[c].owner] > 0
        /\ turn[c].status = "resolved" /\ turn[c].of = c
        /\ turn[c].output # <<>>

\* C5: when the timer of a Turn fires, its child is sent SIGTERM and the
\* Turn is rejected with 'Response timeout'; nothing that happens later
\* (the child's close included) changes that outcome.
C5_TimeoutKillsAndFails ==
    [][\A c \in Children :
          /\ (timer[c] = "armed" /\ timer'[c] = "fired")
                => /\ child[c].state = "running"
                   /\ child'[c].state = "killed"
                   /\ turn'[c].status = "rejected"
                   /\ turn'[c].error = "Response timeout"
          /\ (timer[c] = "fired" /\ child'[c].state = "closed")
                => (turn'[c].status = "rejected"
                    /\ turn'[c].error = "Response timeout")]_vars

\* The timer fired, the child has closed, the Turn failed with the timeout.
C5_Witness ==
    \E c \in Children :
        /\ timer[c] = "fired"
        /\ child[c].state = "closed"
        /\ turn[c].error = "Response timeout"

\* C6: a Turn is never resolved as a success by a close that carried a
\* nonzero exit code.
C6_NonzeroExitFailsTurn ==
    \A c \in Children : ~(turn[c].status = "resolved" /\ turn[c].code = "1")

\* C7: when a Session is closed (removeSession -> kill()) with a Turn in
\* flight, that Turn is rejected: at the latest when the terminated child
\* closes, the Turn has been settled as a failure.
C7_RemoveCancelsTurn ==
    [][\A c \in Children :
          (/\ child[c].state = "killed"
           /\ timer[c] # "fired"
           /\ child'[c].state = "closed")
             => turn'[c].status = "rejected"]_vars


\* =====================================================================
\* Properties of the structured decoder
\* =====================================================================
\* The 'session' events a decoder has emitted.
SessionEvents(d) == SelectSeq(d.st.emitted, LAMBDA e : e[1] = "session")

\* The lines of the stream that are system/init or assistant records
\* carrying a session_id, and the result records carrying one.
IdentityLines == SelectSeq(dRecs, LAMBDA l : l[1] \in {"s", "a"}
                                             /\ l[2] \in SessionIds
                                             /\ l[Len(l) - 1] = ";")
ResultIdLines == SelectSeq(dRecs, LAMBDA l : l[1] = "r" /\ l[2] \in SessionIds
                                             /\ l[Len(l) - 1] = ";")

Latched(d, done) ==
    /\ Len(SessionEvents(d)) <= 1
    /\ dSeed # NULL => SessionEvents(d) = <<>>
    /\ (done /\ dSeed = NULL /\ ResultIdLines = <<>> /\ IdentityLines # <<>>)
          => /\ d.st.sessionId = IdentityLines[1][2]
             /\ SessionEvents(d) = << <<"session", IdentityLines[1][2]>> >>

\* C8: identity latches exactly once: a Session created without a seeded
\* id that is fed init/assistant records carrying session ids keeps the
\* first one, and 'session' is emitted at most once, for that first value
\* (never for a seeded Session).
C8_IdentityLatchesOnce ==
    Latched(dOne, dOne.fed = 1) /\ Latched(dTwo, dTwo.fed = 2)

\* Two identity records with distinct ids were decoded; the first is kept.
C8_Witness ==
    /\ dOne.fed = 1 /\ dSeed = NULL /\ ResultIdLines = <<>>
    /\ Len(IdentityLines) = 2
    /\ IdentityLines[1][2] # IdentityLines[2][2]
    /\ dOne.st.sessionId = IdentityLines[1][2]

\* C9: once sessionId is set, no decoded record changes it.
C9_IdentityNeverOverwritten ==
    [][/\ dOne.st.sessionId # NULL => dOne'.st.sessionId = dOne.st.sessionId
       /\ dTwo.st.sessionId # NULL => dTwo'.st.sessionId = dTwo.st.sessionId]_vars

\* C10: a stream fed as two chunks cut at any byte offset yields the same
\* emitted events, currentOutput and sessionId as the stream fed whole.
C10_ChunkBoundaryInvariance ==
    (dOne.fed = 1 /\ dTwo.fed = 2) => dOne.st = dTwo.st


\* The wire lines of the stream that are not blank and do not parse.
Malformed(l) ==
    LET t == trim(toString(SubSeq(l, 1, Len(l) - 1)))
    IN  t # <<>> /\ JSONparse(t) = ParseError

\* What one decoder makes of a stream that arrives whole.
Decode(seed, recs) == feed(Decoder(seed), Concat(recs)).st

Without(emitted, name) == SelectSeq(emitted, LAMBDA e : e[1] # name)
Only(emitted, name)    == SelectSeq(emitted, LAMBDA e : e[1] = name)

Ascii == \A i \in 1..Len(Stream) : Stream[i] \notin {"xC3", "xA9"}

SkipsMalformed(d) ==
    LET clean == Decode(dSeed, SelectSeq(dRecs, LAMBDA l : ~Malformed(l)))
    IN  /\ Len(Only(d.st.emitted, "parse_error"))
              = Len(SelectSeq(dRecs, Malformed))
        /\ Without(d.st.emitted, "parse_error") = clean.emitted
        /\ d.st.currentOutput = clean.currentOutput
        /\ d.st.sessionId = clean.sessionId

\* C11: every malformed line of a stream produces exactly one 'parse_error'
\* event and nothing else: the other events, currentOutput and sessionId
\* are those of the same stream without the malformed lines (the stream
\* fed whole, or in two chunks when it has no multi-byte character).
C11_MalformedLineIsSkipped ==
    /\ dOne.fed = 1 => SkipsMalformed(dOne)
    /\ (dTwo.fed = 2 /\ Ascii) => SkipsMalformed(dTwo)

\* A malformed line was decoded before a valid text record.
C11_Witness ==
    /\ dOne.fed = 1 /\ Len(dRecs) = 2
    /\ Malformed(dRecs[1]) /\ ~Malformed(dRecs[2])
    /\ Len(Only(dOne.st.emitted, "parse_error")) = 1
    /\ Len(Only(dOne.st.emitted, "text")) = 1

\* The 'result' events that carry final text.
IsFinalText(e) == e[1] = "result" /\ e[2] # <<>>

RECURSIVE TextOf(_)
TextOf(emitted) ==
    IF emitted = <<>> THEN <<>>
    ELSE (IF Head(emitted)[1] = "text" THEN Head(emitted)[2] ELSE <<>>)
         \o TextOf(Tail(emitted))

\* The final text of the last result record followed by the text emitted
\* after it; all the text emitted when there is no such record.
RECURSIVE OutputOf(_)
OutputOf(emitted) ==
    IF emitted = <<>> THEN <<>>
    ELSE LET e    == emitted[Len(emitted)]
             rest == SubSeq(emitted, 1, Len(emitted) - 1)
         IN  IF IsFinalText(e) THEN e[2]
             ELSE IF e[1] = "text" THEN OutputOf(rest) \o e[2]
             ELSE OutputOf(rest)

OutputAsClaimed(d) ==
    LET finals == SelectSeq(d.st.emitted, IsFinalText)
    IN  d.st.currentOutput = IF finals = <<>> THEN TextOf(d.st.emitted)
                             ELSE finals[Len(finals)][2]

\* C12 as stated: the Turn's output is the concatenation of the 'text'
\* events when no result record carries final text, and that record's
\* final text when one does, wherever the result record occurs.
C12_OutputIsTextOrResult ==
    /\ dOne.fed = 1 => OutputAsClaimed(dOne)
    /\ dTwo.fed = 2 => OutputAsClaimed(dTwo)

\* C12 as amended: the Turn's output is the concatenation of the 'text'
\* events when no result record carries final text; otherwise it is the
\* final text of the last such record followed by the text emitted after
\* that record (so it equals the final text when the result comes last).
C12_OutputIsResultThenLaterText ==
    /\ dOne.st.currentOutput = OutputOf(dOne.st.emitted)
    /\ dTwo.st.currentOutput = OutputOf(dTwo.st.emitted)

\* Text was accumulated and a final result then superseded it.
C12_Witness ==
    /\ dOne.fed = 1 /\ Len(dOne.st.emitted) = 2
    /\ dOne.st.emitted[1][1] = "text" /\ dOne.st.emitted[1][2] # <<>>
    /\ IsFinalText(dOne.st.emitted[2])
    /\ dOne.st.currentOutput = dOne.st.emitted[2][2]

\* =====================================================================
\* Properties of the stream-json bot's handleMessage
\* =====================================================================
\* The throttled (non-final) edits, in the order they were initiated.
NonFinalEdits == SelectSeq(edits, LAMBDA e : ~e.final)
FinalEdits    == SelectSeq(edits, LAMBDA e : e.final)

\* C13: any two consecutive non-final edits of the reply message are
\* initiated at least 1000 ms apart (and the first one at least 1000 ms
\* after the reply message), whatever events and ticks arrive and whether
\* or not the earlier edits have completed.
C13_NonFinalEditsThrottled ==
    /\ \A i \in 1..Len(NonFinalEdits) : NonFinalEdits[i].at >= ThrottleMs
    /\ \A i \in 1..(Len(NonFinalEdits) - 1) :
          NonFinalEdits[i + 1].at - NonFinalEdits[i].at >= ThrottleMs

\* Two throttled edits were initiated, the second while the first was
\* still in flight.
C13_Witness ==
    /\ Len(NonFinalEdits) = 2
    /\ applied = 0
    /\ NonFinalEdits[2].at - NonFinalEdits[1].at = ThrottleMs

\* C14: when the Turn has completed (by success, failure or timeout),
\* exactly one final delivery was performed and it rendered every block
\* accumulated during the Turn.
C14_OneFinalDeliveryRendersAll ==
    hPc = "done" =>
        /\ Len(FinalEdits) = 1
        /\ FinalEdits[1].body = formatStructuredOutput(streamBlocks, displayMode)

\* C15: when a Turn fails (timeout, spawn error, process-level failure),
\* the rejection hands the caller the output accumulated so far together
\* with the error.
C15_FailureReturnsPartialOutput ==
    [][\A c \in 1..nChildren :
          (turn[c].status = "pending" /\ turn'[c].status = "rejected")
              => turn'[c].output = currentOutput[child[c].owner]]_vars

\* =====================================================================
\* Properties of the registries
\* =====================================================================
\* The terminal of PTY Session o has been torn down: killed, or exited.
TornDown(o) == ptyProc[o] \in {"killed", "exited"}

C17_ReturnsLiveOrCreates ==
    [][\A ch \in PtyChannelIds, u \in PtyUserIds, opt \in Options :
          ptyGetOrCreateSession(ch, u, opt) =>
              LET key      == Key(ch, u)
                  old      == activeSessions[key]
                  returned == activeSessions'[key]
              IN  /\ returned # NoRef
                  /\ isRunning'[returned] /\ ptyProc'[returned] = "running"
                  /\ IF old # NoRef /\ isRunning[old]
                     THEN returned = old /\ UNCHANGED ptyVars
                     ELSE /\ returned = nPty + 1 /\ nPty' = nPty + 1
                          /\ ptySessionId'[returned] = opt.sessionId
                          /\ ptyWorkingDir'[returned] = opt.workingDir]_vars

\* A Session that exited on its own was replaced by a new one, started
\* with the resume identity of the options.
C17_Witness ==
    \E o1, o2 \in 1..nPty :
        /\ o1 < o2 /\ ptyKey[o1] = ptyKey[o2]
        /\ ptyProc[o1] = "exited" /\ ptyRef[o1] /\ ptySessionId[o1] = NULL
        /\ activeSessions[ptyKey[o2]] = o2 /\ isRunning[o2]
        /\ ptySessionId[o2] = "A"

\* C18: cleanupStaleSessions kills and removes every registered Session
\* idle for more than the threshold and leaves every other registered
\* Session registered and unchanged.
C18_SweepClosesExactlyTheStale ==
    [][cleanupStaleSessions =>
          \A k \in PtyKeys :
              LET o == activeSessions[k] IN
              o # NoRef =>
                  IF ptyClock - lastActivity[o] > STALE_THRESHOLD
                  THEN /\ activeSessions'[k] = NoRef
                       /\ ~isRunning'[o] /\ ~ptyRef'[o]
                       /\ ptyProc'[o] # "running"
                  ELSE /\ activeSessions'[k] = o
                       /\ isRunning'[o] = isRunning[o]
                       /\ isReady'[o] = isReady[o]
                       /\ ptyRef'[o] = ptyRef[o]
                       /\ ptyProc'[o] = ptyProc[o]
                       /\ lastActivity'[o] = lastActivity[o]]_vars

\* Three Sessions last active at now, now - T/2 and now - 2T: the sweep has
\* closed the third and only the third.
C18_Witness ==
    \E o1, o2, o3 \in 1..nPty :
        /\ lastActivity[o1] = ptyClock
        /\ lastActivity[o2] = ptyClock - STALE_THRESHOLD \div 2
        /\ lastActivity[o3] = ptyClock - 2 * STALE_THRESHOLD
        /\ swept = {o3}
        /\ ~isRunning[o3] /\ activeSessions[ptyKey[o3]] = NoRef
        /\ \A o \in {o1, o2} :
              activeSessions[ptyKey[o]] = o /\ isRunning[o]
                  /\ ptyProc[o] = "running"

\* The registry entry of the pair q, and the Session it holds, are as before.
Untouched(q) ==
    LET k == Key(q[1], q[2])
        s == sessions[k]
    IN  /\ sessions'[k] = s
        /\ s # NoRef => /\ sessionId'[s] = sessionId[s]
                        /\ workingDir'[s] = workingDir[s]
                        /\ isProcessing'[s] = isProcessing[s]
                        /\ process'[s] = process[s]

\* C19: getOrCreateSession and removeSession on one (channelId, userId)
\* pair leave the registry entry and the Session of every other pair as
\* they were, for all identifier strings, those that contain the separator
\* included.
C19_KeysIndependent ==
    [][\A p, q \in WidePairs :
          (/\ p # q
           /\ \/ \E o \in Options : getOrCreateSession(p[1], p[2], o)
              \/ removeSession(p[1], p[2]))
              => Untouched(q)]_vars

\* =====================================================================
\* Properties of the PTY-mode ClaudeSession
\* =====================================================================
\* C20: a PTY Session never processes two inputs at once: no two sends of
\* one Session are written and unresolved together, and no two sends are
\* resolved by the same 'ready' event with the same output.
C20_OneInputAtATime ==
    \A i, j \in 1..nSends :
        (i # j /\ psend[i].on = psend[j].on) =>
            /\ ~(psend[i].status = "pending" /\ psend[j].status = "pending")
            /\ ~(/\ psend[i].status = "resolved" /\ psend[j].status = "resolved"
                 /\ psend[i].by = psend[j].by
                 /\ psend[i].output = psend[j].output)

\* =====================================================================
\* Properties of the PTY bot's handleClaude
\* =====================================================================
Streamed(t) == SelectSeq(hcEdits[t], LAMBDA e : ~e.final)

\* C21: no two streaming edits of one reply are initiated within 1000 ms
\* of each other, also when 'output' events arrive while an earlier edit
\* still awaits completion.
C21_EditsOneSecondApart ==
    \A t \in 1..nCalls :
        \A i \in 1..(Len(Streamed(t)) - 1) :
            Streamed(t)[i + 1].at - Streamed(t)[i].at >= EDIT_INTERVAL

\* C26: when the Turn of a handleClaude call has ended, by send() resolving
\* or rejecting, its listeners are no longer attached, and no call's
\* listener has received output of a later call's Turn.
C26_ListenersRemovedAtTurnEnd ==
    \A t \in 1..nCalls :
        /\ hc[t].pc \in {"done", "failed"} => ~hc[t].attached
        /\ ~hc[t].foreign

\* =====================================================================
\* Properties of the entry point
\* =====================================================================
\* the processes that have completed startup and were not told to stop
Serving == { p \in Pids : inst[p].pc = "running" /\ ~inst[p].sig }

\* C22: once startup has completed at most one bot instance is running,
\* for every interleaving of the instances' startups.
C22_AtMostOneInstance == Cardinality(Serving) <= 1

\* C30: whenever a process deletes the lock file, the pid recorded in the
\* file at that moment is its own.
C30_DeletesOnlyOwnLock ==
    [][\A p \in Pids :
          (inst[p].pc \in {"cleanupUnlink", "exitUnlink"}
              /\ inst'[p].pc # inst[p].pc /\ lockFile # NoLock)
          => lockFile = p]_vars

\* =====================================================================
\* Properties of splitMessage
\* =====================================================================
AllWhite(str) == \A i \in 1..Len(str) : str[i] \in WhiteSpace

\* rest is the later chunks in order, each preceded by removed white space;
\* with atEnd, white space may also have been removed after the last chunk
RECURSIVE Follows(_, _, _)
Follows(rest, chunks, atEnd) ==
    IF chunks = <<>>
    THEN IF atEnd THEN AllWhite(rest) ELSE rest = <<>>
    ELSE \E k \in 0..Len(rest) :
            /\ AllWhite(SubSeq(rest, 1, k))
            /\ k + Len(Head(chunks)) <= Len(rest)
            /\ SubSeq(rest, k + 1, k + Len(Head(chunks))) = Head(chunks)
            /\ Follows(SubSeq(rest, k + Len(Head(chunks)) + 1, Len(rest)),
                       Tail(chunks), atEnd)

Reproduces(content, chunks, atEnd) ==
    /\ chunks # <<>>
    /\ Len(Head(chunks)) <= Len(content)
    /\ SubSeq(content, 1, Len(Head(chunks))) = Head(chunks)
    /\ Follows(SubSeq(content, Len(Head(chunks)) + 1, Len(content)),
               Tail(chunks), atEnd)

SplitAsClaimed(atEnd) ==
    fnDone =>
        /\ \A i \in 1..Len(fnOut) : Len(fnOut[i]) <= fnIn.maxLength
        /\ Reproduces(fnIn.content, fnOut, atEnd)
        /\ Len(fnIn.content) <= fnIn.maxLength => fnOut = <<fnIn.content>>

\* C23 (as stated): every chunk has length at most maxLength, the chunks in
\* order reproduce the content except for white space removed at the start
\* of each later chunk, and short content is returned as one unchanged chunk.
C23_ChunksReproduceContent == SplitAsClaimed(FALSE)

\* C23 (amended): as above, where white space is removed at every split
\* point: before each later chunk, and after the last chunk when nothing
\* but white space follows a split.
C23_ChunksReproduceContentUpToSplitSpace == SplitAsClaimed(TRUE)

C23_Witness ==
    /\ fnDone /\ Len(fnOut) = 3
    /\ Len(Concat(fnOut)) < Len(fnIn.content)
    /\ \E i \in 1..Len(fnOut) : Len(fnOut[i]) = fnIn.maxLength

\* =====================================================================
\* Properties of the PTY-mode ClaudeSession on exit
\* =====================================================================
\* C24: a Turn pending when the child exits or the Session is killed is
\* settled with a failure by that step, and the Session is Closed: no send
\* stays written and unsettled on a Session that is no longer running.
C24_ExitFailsPendingTurn ==
    \A i \in 1..nSends :
        LET o == psend[i].on
        IN  psend[i].status = "pending" => ptyProc[o] \notin {"killed", "exited"}

\* =====================================================================
\* Properties of the stream-json bot's handleMessage
\* =====================================================================
\* the listeners the Session carries, with the call that subscribed them
Subscribed == { <<t, e>> \in HmCalls \X HmEvents : e \in hm[t].listening }

HmFinished == {"done", "awaitFatalSend", "returned"}

ResumeOf(args) ==
    LET at == { i \in 1..(Len(args) - 1) : args[i] = "--resume" }
    IN  IF at = {} THEN NULL ELSE args[(CHOOSE i \in at : TRUE) + 1]

Flags(args) == Cardinality({ i \in 1..Len(args) : args[i] = "--resume" })

\* C27: every send spawns its child in the Session's working directory and
\* with --resume carrying exactly the sessionId the Session has at that
\* moment; with no sessionId no resume flag is passed.
C27_SpawnResumesCurrentSession ==
    [][\A s \in Objects :
          LET c == nChildren + 1
          IN  (nChildren' = c /\ child'[c].owner = s) =>
                 /\ child'[c].cwd = workingDir[s]
                 /\ ResumeOf(child'[c].args) = sessionId[s]
                 /\ Flags(child'[c].args) = IF sessionId[s] = NULL THEN 0 ELSE 1
      ]_vars

\* a Session created without identity has spawned a child without the flag
\* and then one that resumes the identity observed in between
C27_Witness ==
    \E c, e \in 1..nChildren :
        /\ c < e /\ child[c].owner = child[e].owner
        /\ ResumeOf(child[c].args) = NULL
        /\ ResumeOf(child[e].args) # NULL
        /\ child[e].cwd = "d"

\* =====================================================================
\* Properties of the decoder's tool status
\* =====================================================================
Segments(path) == splitSlash(replaceBackslashes(path), <<>>, <<>>)

LastTwo(path) ==
    LET n == Len(Segments(path))
    IN  IF n > 2
        THEN <<".../">> \o Segments(path)[n - 1] \o <<"/">> \o Segments(path)[n]
        ELSE path

Prefix == [Read |-> "Reading ", Write |-> "Writing ", Edit |-> "Editing "]

\* the cases of the claim that name a tool and its argument
ToolTable ==
    LET name == fnIn.name
        cmd  == fnIn.input.command
        path == fnIn.input.file_path
    IN  /\ (name = "Bash" /\ cmd # <<>>) =>
              /\ Head(fnOut) = "Running: "
              /\ \A i \in 1..CommandLimit :
                    i <= Len(cmd) => fnOut[i + 1] = cmd[i]
              /\ Len(cmd) <= CommandLimit => Len(fnOut) = Len(cmd) + 1
              /\ Len(cmd) > CommandLimit =>
                    /\ Len(fnOut) = CommandLimit + 2
                    /\ fnOut[CommandLimit + 2] = "..."
        /\ name \in {"Grep", "Glob"} => fnOut = <<"Searching...">>
        /\ (name \in {"Read", "Write", "Edit"} /\ path # <<>>) =>
              fnOut = <<Prefix[name]>> \o LastTwo(path)

\* the tools the table names, with the argument the table looks at
Tabled(names) ==
    \/ fnIn.name \in names
    \/ fnIn.name = "Bash" /\ fnIn.input.command # <<>>
    \/ fnIn.name \in {"Read", "Write", "Edit"} /\ fnIn.input.file_path # <<>>

\* C28 (as stated): Bash, Grep, Glob, Read, Write and Edit get the status
\* of the table; any other tool gets its raw name.
C28_StatusTable ==
    fnDone =>
        /\ ToolTable
        /\ (fnIn.name # NULL /\ ~Tabled({"Grep", "Glob"}))
              => fnOut = <<fnIn.name>>

\* C28 (amended): as above, with 'Fetching web content' for WebFetch and
\* 'Spawning agent...' for Task, and the raw name for every other tool.
C28_StatusTableWithWebFetchAndTask ==
    fnDone =>
        /\ ToolTable
        /\ fnIn.name = "WebFetch" => fnOut = <<"Fetching web content">>
        /\ fnIn.name = "Task" => fnOut = <<"Spawning agent...">>
        /\ (fnIn.name # NULL
               /\ ~Tabled({"Grep", "Glob", "WebFetch", "Task"}))
              => fnOut = <<fnIn.name>>

C28_Witness ==
    /\ fnDone
    /\ fnIn.name = "Bash"
    /\ Len(fnIn.input.command) > CommandLimit
    /\ fnOut[Len(fnOut)] = "..."

\* =====================================================================
\* Properties of the readiness heuristic
\* =====================================================================
\* the last line of the output with the escape sequences stripped
NormalizedLastLine == lastLine(SelectSeq(fnIn, LAMBDA t : t # "esc"))

\* C29: an output whose normalized last line ends with '> ' or '? ', or
\* contains an awaiting-input phrase, is detected as waiting for input (and
\* so flips the Session to ready).
C29_PromptIsDetected ==
    fnDone =>
        ((\/ endsWith(NormalizedLastLine, <<">", " ">>)
          \/ endsWith(NormalizedLastLine, <<"?", " ">>)
          \/ includes(NormalizedLastLine, <<"ind">>))
            => fnOut = TRUE)

\* =====================================================================
\* Properties of the structured-mode ClaudeSession across Turns
\* =====================================================================
\* C33: a Turn settled by a 'close' or 'error' handler is settled by the
\* event of its own child, never by the event of a child spawned for an
\* earlier Turn of the Session.
C33_StaleChildEventsAreIgnored ==
    \A t \in 1..nChildren :
        (turn[t].status \in {"resolved", "rejected"}
            /\ turn[t].by \in {"close", "error"}) => turn[t].of = t

\* the Session has a Turn whose promise is not settled
HasUnsettledTurn(s) ==
    \E t \in 1..nChildren : child[t].owner = s /\ turn[t].status = "pending"

\* C34: isProcessing is true exactly when the Session has an unsettled Turn.
C34_ProcessingIffUnsettled ==
    \A s \in 1..nSessions : isProcessing[s] <=> HasUnsettledTurn(s)

\* =====================================================================
\* Properties of the identity announcements
\* =====================================================================
\* the identity a subscriber of 'session' holds: the value of the last
\* 'session' event, or the identity the Session was created with
RECURSIVE Announced(_, _)
Announced(emitted, held) ==
    IF emitted = <<>> THEN held
    ELSE Announced(Tail(emitted),
                   IF Head(emitted)[1] = "session"
                   THEN Head(emitted)[2] ELSE held)

\* C36: every change of sessionId caused by child output is announced by a
\* 'session' event carrying the new value: the subscriber's value is the
\* Session's.
C36_IdentityChangesAreAnnounced ==
    /\ Announced(dOne.st.emitted, dSeed) = dOne.st.sessionId
    /\ Announced(dTwo.st.emitted, dSeed) = dTwo.st.sessionId

\* =====================================================================
\* Properties of the final delivery
\* =====================================================================
\* C32: once the final rendering of the Turn has been sent to the reply
\* message, no status-line edit of that message is initiated afterwards.
C32_NoEditAfterFinal ==
    \A i, j \in 1..Len(edits) :
        (i < j /\ edits[i].final) => edits[j].final

\* =====================================================================
\* Properties of the PTY-mode readiness wait
\* =====================================================================
\* C35: a send whose message has been written (after 'ready' arrived) is
\* never rejected with 'Timeout waiting for Claude to be ready'.
C35_NoReadyTimeoutAfterWrite ==
    [][\A i \in 1..nSends :
          psend[i].status = "pending" =>
             ~(/\ psend'[i].status = "rejected"
               /\ psend'[i].error = "Timeout waiting for Claude to be ready")
      ]_vars

\* =====================================================================
\* Properties of the idle sweep
\* =====================================================================
\* C37: while a Turn is pending its Session's lastActivity is less than the
\* stale threshold old, and the Session has not been swept: it is registered
\* and running.
C37_SweepSparesPendingTurn ==
    \A i \in 1..nSends :
        psend[i].status = "pending" =>
            LET o == psend[i].on
            IN  /\ ptyClock - lastActivity[o] < STALE_THRESHOLD
                /\ ~stale(ptyClock, lastActivity[o])
                /\ o \notin swept
                /\ isRunning[o]
                /\ activeSessions[ptyKey[o]] = o

\* a Turn is pending at its deadline on a Session that is older than the
\* threshold
C37_Witness ==
    \E i \in 1..nSends :
        /\ psend[i].status = "pending"
        /\ ptyClock = psend[i].at + RESPONSE_TIMEOUT
        /\ ptyClock > STALE_THRESHOLD

\* =====================================================================
\* Properties of the allow-list and the session store
\* =====================================================================
\* C38: a child is spawned and written to only for a user and a channel
\* that the non-empty allow-lists contain.
C38_AllowListGuardsSpawn ==
    [][\A channelId \in CmChannels, userId \in CmUsers :
          (/\ <<channelId, userId>> \notin cmProcessing
           /\ <<channelId, userId>> \in cmProcessing')
          => /\ allowedUsers # {} => userId \in allowedUsers
             /\ allowedChannels # {} => channelId \in allowedChannels]_vars

\* a user outside the list has started a Session and sent a message, which
\* was ignored
C38_Witness ==
    /\ allowedUsers = {"u"}
    /\ cmLast = <<"ignored", <<"c", "v">>>>
    /\ <<"c", "v">> \in cmSessions
    /\ <<"c", "u">> \in cmProcessing

\* C39: the store holds at most one active row per (channel, user) pair,
\* and none for the pair right after its /stop.
C39_OneActiveRowPerPair ==
    \A channelId \in CmChannels, userId \in CmUsers :
        /\ Cardinality(ActiveRows(channelId, userId)) <= 1
        /\ cmLast \in {<<"ended", <<channelId, userId>>>>,
                       <<"nothing to stop", <<channelId, userId>>>>}
              => ActiveRows(channelId, userId) = {}

\* a pair was started twice and another pair was stopped
C39_Witness ==
    /\ Len(rows) = MaxRows
    /\ \E r, q \in 1..Len(rows) :
          /\ r < q /\ rows[r].channel = rows[q].channel
          /\ rows[r].user = rows[q].user
          /\ ~rows[r].active /\ rows[q].active
    /\ cmLast[1] = "ended"

\* =====================================================================
\* Properties of handleMessage while a Turn is in flight
\* =====================================================================
\* C31: a message handled while the Session's Turn is in flight gets the
\* 'still processing' notice and never the error of send(), also when it
\* was handled while an earlier call was still awaiting before its send().
C31_BusyMessageGetsNotice ==
    \A t \in 1..nHm : hm[t].error # AlreadyProcessing

====
